---- MODULE Spec2Model ----
(***************************************************************************)
(* A model of go-remedy's concurrency and session control core:            *)
(*   - internal/queue: the single-slot request gate (Queue)                *)
(*   - client.go / auth: token refresh, the guarded request pipeline       *)
(* Goroutines are the processes 1..NumCallers.  Every Go statement that    *)
(* touches shared state is one step.                                       *)
(***************************************************************************)
EXTENDS Integers, FiniteSets, Sequences, TLC

\* ------------------------------------------------------------------ bounds
NumCallers == 3        \* goroutines using a bare Queue, or a bare session
MaxLifetime == 2       \* longest configured token lifetime, in seconds
NumClients == 2        \* goroutines calling the Client's operations
MaxGrants == 3         \* calls are made until this many have succeeded
MaxAge == 3            \* the limiter's age is counted up to this many ticks
MaxRate == 3           \* largest configured rate limit, in half requests per second

Callers == 1..NumCallers
Clients == {p \in Callers : p <= NumClients}

\* context.Context as seen by ctx.Err(): nil ("live") or one of the two errors
CtxErrs == {"Canceled", "DeadlineExceeded"}
CtxStates == {"live"} \cup CtxErrs

VARIABLES
    sem,            \* len(q.sem): 0 = slot free, 1 = slot taken   (cap 1)
    closed,         \* q.closed has been closed
    closeOnce,      \* q.closeOnce has run
    qpc,            \* per goroutine: position inside Queue.Acquire
    qret,           \* per goroutine: value being returned by Queue.Acquire
    ctx,            \* per goroutine: state of the context passed to the call
    pc,             \* per goroutine: position in the caller's own code
    panicked,       \* "none", or the panic that crashed the program
    \* history variables (never read by the program)
    held,           \* p's Acquire succeeded and p has not released since
    ctxAtCall,      \* the context state when p's current Acquire was called
    afterClose,     \* p's current Acquire was called after a Close returned
    parkedAtCall,   \* p's current Acquire was blocked when a Close was called
    parkedAtClose,  \* p's current Acquire was blocked when the gate was closed
    unmatched,      \* a Release without a matching Acquire has been made
    relAfterClose,  \* a holder has released the slot after the gate was closed
    reClosed,       \* a Close call has run on a gate that was already closed
    \* Client: session state
    token,          \* c.token ("" = none)
    tokenExpiry,    \* c.tokenExpiry - time.Now(), in seconds; -1 = any time in the past
    credentials,    \* c.credentials: "nil" or the stored user
    refreshMu,      \* c.refreshMu: 0 = unlocked, else the goroutine holding it
    autoRefresh,    \* c.autoRefresh            (set by New / WithAutoRefresh)
    tokenLifetime,  \* c.tokenLifetime, seconds (set by New / WithTokenLifetime)
    refreshThreshold, \* c.refreshThreshold     (set by New / WithRefreshThreshold)
    epc,            \* per goroutine: position inside ensureValidToken
    eret,           \* per goroutine: value being returned by ensureValidToken
    http,           \* per goroutine: its request in flight at the server, or "none"
    loginUser,      \* per goroutine: the username of its loginInternal call
    \* history variables
    doomed,         \* per caller: when it called ensureValidToken the token
                    \* needed refresh and auto-refresh was off or no credentials
                    \* were stored
    nAuth,          \* number of login requests sent by refreshToken
    authOutcomes,   \* the kinds of login response received so far
    stale,          \* a token installed by a refresh has come to need refresh
    slowPath,       \* p's ensureValidToken call went on to take c.refreshMu,
                    \* before any login response had been received
    \* Client: rate limiter and operations
    rateLimit,      \* 0: c.rateLimiter == nil; r > 0: ratelimit.New(r / RateDen)
    limTokens,      \* l.tokens, in units of 1 / TokenUnit of a token
    limElapsed,     \* time.Now() - l.lastRefill, in ticks (a second or more:
                    \* TicksPerSecond)
    timer,          \* per goroutine: ticks until its time.After(waitTime) fires
    op,             \* per goroutine: the Client operation it is running
    lastErr,        \* per goroutine: where its last operation failed, or "none"
    \* history variables
    steps,          \* per goroutine: what its current (or last) operation has
                    \* done so far, in order
    granted,        \* number of calls that have succeeded: Allow returning true
                    \* plus Wait returning nil
    allowed,        \* number of Allow calls that have returned true
    age,            \* ticks since ratelimit.New (counted up to MaxAge)
    took,           \* p's current (or last) limiter call decremented l.tokens
    early,          \* the context of p's current (or last) Wait call was done
                    \* at a moment when no token was due for the call
    limRet          \* what p's last limiter call returned; "none" before it

gateVars == <<sem, closed, closeOnce>>
histVars == <<held, ctxAtCall, afterClose, parkedAtCall, parkedAtClose, relAfterClose>>
confVars == <<autoRefresh, tokenLifetime, refreshThreshold>>
sessVars == <<token, tokenExpiry, credentials, refreshMu, epc, eret, http, loginUser>>
sessHist == <<nAuth, authOutcomes, stale, slowPath, doomed>>
limVars == <<limTokens, limElapsed>>
pipeVars == <<rateLimit, limTokens, limElapsed, timer, op, lastErr>>
limHist == <<granted, allowed, age, took, early, limRet>>
queueVars == <<sem, closed, closeOnce, qpc, qret, panicked, reClosed,
               held, ctxAtCall, afterClose, parkedAtCall, parkedAtClose, unmatched,
               relAfterClose>>
vars == <<sem, closed, closeOnce, qpc, qret, ctx, pc, panicked, reClosed,
          held, ctxAtCall, afterClose, parkedAtCall, parkedAtClose, unmatched,
          relAfterClose,
          token, tokenExpiry, credentials, refreshMu, autoRefresh, tokenLifetime,
          refreshThreshold, epc, eret, http, loginUser, doomed, nAuth, authOutcomes, stale,
          slowPath, rateLimit, limTokens, limElapsed, timer, op, lastErr,
          steps, granted, allowed, age, took, early, limRet>>

\* ------------------------------------------------------------- Queue (gate)

\* queue.New: empty semaphore of capacity 1, open `closed` channel
QueueNew ==
    /\ sem = 0
    /\ closed = FALSE
    /\ closeOnce = FALSE

\* capacity of q.sem: make(chan struct{}, 1)
SemCapacityTwo == 1 + 1
SemCapacity == 1

\* the communications of the blocking select in Acquire
SelectCasesNoClosed == {"ctx", "sem"}
SelectCases == {"closed", "ctx", "sem"}

\* the cases of the blocking select that can proceed for p right now
ReadyCases(p) ==
    {c \in SelectCases :
        \/ c = "closed" /\ closed
        \/ c = "ctx" /\ ctx[p] # "live"
        \/ c = "sem" /\ sem < SemCapacity}

Parked == {p \in Callers : qpc[p] = "parked"}

\* Acquire returns e to p
Returning(p, e) ==
    /\ qpc' = [qpc EXCEPT ![p] = "ret"]
    /\ qret' = [qret EXCEPT ![p] = e]

\* Acquire, first statement: if err := ctx.Err(); err != nil { return err }
\* c is the state of the context the call is made with.
AcquireEnterNoCtxCheck(p, c) ==
    /\ qpc[p] = "none"
    /\ qpc' = [qpc EXCEPT ![p] = "l46"]
    /\ UNCHANGED qret
    /\ ctxAtCall' = [ctxAtCall EXCEPT ![p] = c]
    /\ afterClose' = [afterClose EXCEPT ![p] = closeOnce]
    /\ UNCHANGED <<sem, closed, closeOnce, held, parkedAtCall, parkedAtClose,
                   relAfterClose>>

AcquireEnter(p, c) ==
    /\ qpc[p] = "none"
    /\ IF c # "live"
          THEN Returning(p, c)
          ELSE qpc' = [qpc EXCEPT ![p] = "l46"] /\ UNCHANGED qret
    /\ ctxAtCall' = [ctxAtCall EXCEPT ![p] = c]
    /\ afterClose' = [afterClose EXCEPT ![p] = closeOnce]
    /\ UNCHANGED <<sem, closed, closeOnce, held, parkedAtCall, parkedAtClose,
                   relAfterClose>>

\* Acquire, the non-blocking select: case <-q.closed: return ErrQueueClosed
AcquireCheckClosedSkipped(p) ==
    /\ qpc[p] = "l46"
    /\ qpc' = [qpc EXCEPT ![p] = "l52"]
    /\ UNCHANGED <<qret, sem, closed, closeOnce, histVars>>

AcquireCheckClosed(p) ==
    /\ qpc[p] = "l46"
    /\ IF closed
          THEN Returning(p, "ErrQueueClosed")
          ELSE qpc' = [qpc EXCEPT ![p] = "l52"] /\ UNCHANGED qret
    /\ UNCHANGED <<sem, closed, closeOnce, histVars>>

\* Acquire, the blocking select.  If some communication can proceed, one of
\* those is chosen (any of them); otherwise the goroutine parks on all three
\* channels and the first operation on one of them decides its case.
AcquireSelect(p) ==
    /\ qpc[p] = "l52"
    /\ IF ReadyCases(p) = {}
          THEN /\ qpc' = [qpc EXCEPT ![p] = "parked"]
               /\ UNCHANGED <<qret, sem, held>>
          ELSE \E c \in ReadyCases(p) :
                  CASE c = "closed" ->
                         /\ Returning(p, "ErrQueueClosed")
                         /\ UNCHANGED <<sem, held>>
                    [] c = "ctx" ->
                         /\ Returning(p, ctx[p])
                         /\ UNCHANGED <<sem, held>>
                    [] c = "sem" ->
                         /\ Returning(p, "nil")
                         /\ sem' = sem + 1
                         /\ held' = [held EXCEPT ![p] = TRUE]
    /\ UNCHANGED <<closed, closeOnce, ctxAtCall, afterClose, parkedAtCall,
                   parkedAtClose, relAfterClose>>

\* Release: select { case <-q.sem: ; default: panic(...) }.
\* A receive from the full buffer with a sender parked on q.sem moves that
\* sender's element into the buffer and wakes the sender with its send done.
ReleaseChecksHolder(p) ==
    /\ UNCHANGED <<closed, closeOnce, ctxAtCall, afterClose, parkedAtCall, parkedAtClose>>
    /\ IF sem = 0 \/ ~held[p]
          THEN /\ panicked' = "queue: Release called without Acquire"
               /\ UNCHANGED <<sem, qpc, qret, held, relAfterClose>>
          ELSE /\ panicked' = panicked
               /\ relAfterClose' = (relAfterClose \/ (closed /\ held[p]))
               /\ LET waiters == IF "sem" \in SelectCases /\ sem = SemCapacity
                                    THEN Parked \ {p} ELSE {}
                  IN IF waiters = {}
                        THEN /\ sem' = sem - 1
                             /\ held' = [held EXCEPT ![p] = FALSE]
                             /\ UNCHANGED <<qpc, qret>>
                        ELSE \E w \in waiters :
                                /\ sem' = sem
                                /\ held' = [held EXCEPT ![p] = FALSE, ![w] = TRUE]
                                /\ qpc' = [qpc EXCEPT ![w] = "ret"]
                                /\ qret' = [qret EXCEPT ![w] = "nil"]

Release(p) ==
    /\ UNCHANGED <<closed, closeOnce, ctxAtCall, afterClose, parkedAtCall, parkedAtClose>>
    /\ IF sem = 0
          THEN /\ panicked' = "queue: Release called without Acquire"
               /\ UNCHANGED <<sem, qpc, qret, held, relAfterClose>>
          ELSE /\ panicked' = panicked
               /\ relAfterClose' = (relAfterClose \/ (closed /\ held[p]))
               /\ LET waiters == IF "sem" \in SelectCases /\ sem = SemCapacity
                                    THEN Parked \ {p} ELSE {}
                  IN IF waiters = {}
                        THEN /\ sem' = sem - 1
                             /\ held' = [held EXCEPT ![p] = FALSE]
                             /\ UNCHANGED <<qpc, qret>>
                        ELSE \E w \in waiters :
                                /\ sem' = sem
                                /\ held' = [held EXCEPT ![p] = FALSE, ![w] = TRUE]
                                /\ qpc' = [qpc EXCEPT ![w] = "ret"]
                                /\ qret' = [qret EXCEPT ![w] = "nil"]

\* Close is called: the goroutine is inside Close, before closeOnce.Do
CloseCall ==
    /\ parkedAtCall' = [p \in Callers |-> parkedAtCall[p] \/ p \in Parked]
    /\ UNCHANGED <<sem, closed, closeOnce, qpc, qret, held, ctxAtCall, afterClose,
                   parkedAtClose, relAfterClose, panicked, reClosed>>

\* Close: q.closeOnce.Do(func() { close(q.closed) }), and the return.
\* close of a closed channel panics; close wakes every receiver parked on it.
CloseWithoutOnce ==
    /\ reClosed' = (reClosed \/ closeOnce)
    /\ closeOnce' = TRUE
    /\ closed' = TRUE
    /\ panicked' = IF closed THEN "close of closed channel" ELSE panicked
    /\ qpc' = [p \in Callers |-> IF p \in Parked THEN "ret" ELSE qpc[p]]
    /\ qret' = [p \in Callers |-> IF p \in Parked THEN "ErrQueueClosed" ELSE qret[p]]
    /\ parkedAtClose' = [p \in Callers |-> parkedAtClose[p] \/ p \in Parked]
    /\ UNCHANGED <<sem, held, ctxAtCall, afterClose, parkedAtCall, relAfterClose>>

CloseDrainsSlot ==
    /\ reClosed' = (reClosed \/ closeOnce)
    /\ closeOnce' = TRUE
    /\ closed' = TRUE
    /\ sem' = 0
    /\ qpc' = [p \in Callers |-> IF p \in Parked THEN "ret" ELSE qpc[p]]
    /\ qret' = [p \in Callers |-> IF p \in Parked THEN "ErrQueueClosed" ELSE qret[p]]
    /\ parkedAtClose' = [p \in Callers |-> parkedAtClose[p] \/ p \in Parked]
    /\ UNCHANGED <<held, ctxAtCall, afterClose, parkedAtCall, relAfterClose, panicked>>

Close ==
    /\ reClosed' = (reClosed \/ closeOnce)
    /\ closeOnce' = TRUE
    /\ IF closeOnce
          THEN UNCHANGED <<sem, closed, qpc, qret, histVars, panicked>>
          ELSE /\ panicked' = IF closed THEN "close of closed channel" ELSE panicked
               /\ closed' = TRUE
               /\ LET woken == IF "closed" \in SelectCases THEN Parked ELSE {}
                  IN /\ qpc' = [p \in Callers |-> IF p \in woken THEN "ret" ELSE qpc[p]]
                     /\ qret' = [p \in Callers |->
                                   IF p \in woken THEN "ErrQueueClosed" ELSE qret[p]]
               /\ parkedAtClose' = [p \in Callers |-> parkedAtClose[p] \/ p \in Parked]
               /\ UNCHANGED <<sem, held, ctxAtCall, afterClose, parkedAtCall,
                              relAfterClose>>

\* The context of p's call in progress is cancelled (e = Canceled) or passes
\* its deadline (e = DeadlineExceeded): ctx.Done() is closed, which wakes p
\* if it is parked in Acquire's select.
CtxDone(p, e) ==
    /\ ctx[p] = "live"
    /\ ctx' = [ctx EXCEPT ![p] = e]
    /\ IF qpc[p] = "parked" /\ "ctx" \in SelectCases
          THEN Returning(p, e)
          ELSE UNCHANGED <<qpc, qret>>

\* ---------------------------------------------------------- rate limiter
\* Durations are whole ticks, TicksPerSecond of them to the second (Go's
\* time.Second is 1e9 ticks of a nanosecond).  Rates are given in steps of
\* 1 / RateDen requests per second, so rateLimit = r stands for
\* New(r / RateDen).  Token counts are kept exact, in units of 1 / TokenUnit
\* of a token: one tick of elapsed time refills rateLimit units.

TicksPerSecond == 2
RateDen == 2
TokenUnit == TicksPerSecond * RateDen

\* l.maxTokens = requestsPerSecond
MaxTokens == rateLimit * TicksPerSecond

\* ratelimit.New(r): tokens = maxTokens = refillRate = r, lastRefill = now
LimiterNewEmpty(r) ==
    /\ limTokens = 0
    /\ limElapsed = 0

LimiterNew(r) ==
    /\ limTokens = r * TicksPerSecond
    /\ limElapsed = 0

Min(a, b) == IF a < b THEN a ELSE b

\* refill: tokens += elapsed * refillRate, capped at maxTokens
RefilledNoCap == limTokens + limElapsed * rateLimit

Refilled == Min(MaxTokens, limTokens + limElapsed * rateLimit)

\* tryAcquireOrGetWaitTime: 0 if a token was taken; otherwise
\* time.Duration((1 - tokens) / refillRate * float64(time.Second)), a
\* conversion that truncates to a whole number of ticks
WaitTime ==
    IF Refilled >= TokenUnit THEN 0 ELSE (TokenUnit - Refilled) \div rateLimit

\* refill, then: if l.tokens >= 1 { l.tokens-- } (Allow and
\* tryAcquireOrGetWaitTime alike)
TryAcquireOrGetWaitTime ==
    /\ limElapsed' = 0
    /\ limTokens' = IF Refilled >= TokenUnit THEN Refilled - TokenUnit ELSE Refilled

\* no limiter call has been made yet
LimHistInit ==
    /\ granted = 0
    /\ allowed = 0
    /\ age = 0
    /\ took = [p \in Callers |-> FALSE]
    /\ early = [p \in Callers |-> FALSE]
    /\ limRet = [p \in Callers |-> "none"]

\* Allow: refill, then take a token if there is one
AllowResult == Refilled >= TokenUnit

Allow ==
    /\ limElapsed' = 0
    /\ limTokens' = IF AllowResult THEN Refilled - TokenUnit ELSE Refilled

\* d ticks pass: lastRefill is d ticks further back (beyond a second the
\* bucket is full whatever the exact time), pending timers are d ticks nearer
TimePasses(d) ==
    /\ limElapsed' = IF rateLimit > 0 THEN Min(TicksPerSecond, limElapsed + d)
                                      ELSE limElapsed
    /\ timer' = [p \in Callers |-> IF timer[p] > d THEN timer[p] - d ELSE 0]

\* ------------------------------------------------------- Client: session
\* Time is kept relative to time.Now(): tokenExpiry holds the number of ticks
\* until c.tokenExpiry (negative once it has passed; every negative value
\* behaves alike, so -1 stands for all of them).

\* New: no token, the zero time.Time as expiry, no credentials
ClientNew ==
    /\ token = ""
    /\ tokenExpiry = -1
    /\ credentials = "nil"
    /\ refreshMu = 0
    /\ epc = [p \in Callers |-> "none"]
    /\ eret = [p \in Callers |-> "nil"]
    /\ http = [p \in Callers |-> "none"]
    /\ loginUser = [p \in Callers |-> "nil"]

SessHistInit ==
    /\ nAuth = 0
    /\ authOutcomes = {}
    /\ stale = FALSE
    /\ slowPath = [p \in Callers |-> FALSE]
    /\ doomed = [p \in Callers |-> FALSE]

\* tokenNeedsRefreshLocked:
\*   token == "" || time.Now().Add(c.refreshThreshold).After(c.tokenExpiry)
NeedsRefreshAtExpiry(tok, expiresIn) ==
    \/ tok = ""
    \/ 0 > expiresIn

NeedsRefresh(tok, expiresIn) ==
    \/ tok = ""
    \/ refreshThreshold > expiresIn

tokenNeedsRefresh == NeedsRefresh(token, tokenExpiry)

\* a second passes on the clock the session reads
ClockTick ==
    tokenExpiry' = IF tokenExpiry < 0 THEN tokenExpiry ELSE tokenExpiry - 1

\* ensureValidToken returns e to p
EvtReturning(p, e) ==
    /\ epc' = [epc EXCEPT ![p] = "ret"]
    /\ eret' = [eret EXCEPT ![p] = e]

\* ensureValidToken, fast path and auto-refresh check (client.go 213-221)
EnsureValidTokenEnterAutoFirst(p) ==
    /\ epc[p] = "none"
    /\ IF ~autoRefresh
          THEN EvtReturning(p, "ErrNoCredentials")
          ELSE IF ~tokenNeedsRefresh
                  THEN EvtReturning(p, "nil")
                  ELSE epc' = [epc EXCEPT ![p] = "lock"] /\ UNCHANGED eret
    /\ UNCHANGED <<token, tokenExpiry, credentials, refreshMu, http, loginUser>>

EnsureValidTokenEnterNoCheck(p) ==
    /\ epc[p] = "none"
    /\ EvtReturning(p, "nil")
    /\ UNCHANGED <<token, tokenExpiry, credentials, refreshMu, http, loginUser>>

EnsureValidTokenEnter(p) ==
    /\ epc[p] = "none"
    /\ IF ~tokenNeedsRefresh
          THEN EvtReturning(p, "nil")
          ELSE IF ~autoRefresh
                  THEN EvtReturning(p, "ErrNoCredentials")
                  ELSE epc' = [epc EXCEPT ![p] = "lock"] /\ UNCHANGED eret
    /\ UNCHANGED <<token, tokenExpiry, credentials, refreshMu, http, loginUser>>

\* ensureValidToken: c.refreshMu.Lock() and the second check under the lock
\* (client.go 224-230); the deferred Unlock runs when it returns
EnsureValidTokenLockNoRecheck(p) ==
    /\ epc[p] = "lock"
    /\ refreshMu = 0
    /\ refreshMu' = p
    /\ epc' = [epc EXCEPT ![p] = "refresh"]
    /\ UNCHANGED <<eret, token, tokenExpiry, credentials, http, loginUser>>

EnsureValidTokenLockNoWait(p) ==
    /\ epc[p] = "lock"
    /\ IF ~tokenNeedsRefresh
          THEN /\ EvtReturning(p, "nil")
               /\ UNCHANGED refreshMu
          ELSE /\ refreshMu' = p
               /\ epc' = [epc EXCEPT ![p] = "refresh"]
               /\ UNCHANGED eret
    /\ UNCHANGED <<token, tokenExpiry, credentials, http, loginUser>>

EnsureValidTokenLock(p) ==
    /\ epc[p] = "lock"
    /\ refreshMu = 0
    /\ IF ~tokenNeedsRefresh
          THEN /\ EvtReturning(p, "nil")
               /\ UNCHANGED refreshMu
          ELSE /\ refreshMu' = p
               /\ epc' = [epc EXCEPT ![p] = "refresh"]
               /\ UNCHANGED eret
    /\ UNCHANGED <<token, tokenExpiry, credentials, http, loginUser>>

\* loginInternal up to c.do(req): the login request for user u is sent
LoginInternalSend(p, u) ==
    /\ http' = [http EXCEPT ![p] = "login"]
    /\ loginUser' = [loginUser EXCEPT ![p] = u]

\* what the server answers to a login request:
\*   "ok"    200 with a token in the body
\*   "blank" 200 with a body that is empty after strings.TrimSpace
\*   "fail"  transport error, cancelled request, status != 200, oversized body
LoginResponses == {"ok", "blank", "fail"}

\* setToken(tok): the token alone is written
SetTokenSkipped(tok) == UNCHANGED token

SetToken(tok) == token' = tok

\* setTokenWithExpiry(tok, time.Now().Add(c.tokenLifetime)): both fields are
\* written under one tokenMu.Lock
SetTokenOnly(tok) ==
    /\ token' = tok
    /\ UNCHANGED tokenExpiry

SetTokenWithExpiry(tok) ==
    /\ token' = tok
    /\ tokenExpiry' = tokenLifetime

\* a request made with a done context fails in c.do
Answers(p, os) == IF ctx[p] = "live" THEN os ELSE {"fail"}

\* loginInternal from the response on: on 200 the trimmed body becomes the
\* token with expiry time.Now().Add(c.tokenLifetime); otherwise an error
LoginInternalRespondClears(p, o) ==
    /\ http' = [http EXCEPT ![p] = "none"]
    /\ SetTokenWithExpiry(IF o = "ok" THEN loginUser[p] ELSE "")

LoginInternalRespond(p, o) ==
    /\ http' = [http EXCEPT ![p] = "none"]
    /\ IF o = "fail"
          THEN UNCHANGED <<token, tokenExpiry>>
          ELSE SetTokenWithExpiry(IF o = "ok" THEN loginUser[p] ELSE "")

LoginResultDropped(o) == "nil"

LoginResult(o) == IF o = "fail" THEN "AuthError" ELSE "nil"

\* refreshToken: read the stored credentials; none: ErrNoCredentials;
\* otherwise loginInternal with them (client.go 236-247)
RefreshTokenNoCredCheck(p) ==
    /\ epc[p] = "refresh"
    /\ LoginInternalSend(p, credentials)
    /\ epc' = [epc EXCEPT ![p] = "login"]
    /\ UNCHANGED <<eret, refreshMu, token, tokenExpiry, credentials>>

RefreshToken(p) ==
    /\ epc[p] = "refresh"
    /\ IF credentials = "nil"
          THEN /\ EvtReturning(p, "ErrNoCredentials")
               /\ refreshMu' = 0
               /\ UNCHANGED <<http, loginUser>>
          ELSE /\ LoginInternalSend(p, credentials)
               /\ epc' = [epc EXCEPT ![p] = "login"]
               /\ UNCHANGED <<eret, refreshMu>>
    /\ UNCHANGED <<token, tokenExpiry, credentials>>

\* the refresh's login request completes; ensureValidToken returns its result
\* and unlocks c.refreshMu
RefreshTokenDoneNoUnlock(p, o) ==
    /\ epc[p] = "login"
    /\ LoginInternalRespond(p, o)
    /\ EvtReturning(p, LoginResult(o))
    /\ loginUser' = [loginUser EXCEPT ![p] = "nil"]
    /\ UNCHANGED <<credentials, refreshMu>>

RefreshTokenDone(p, o) ==
    /\ epc[p] = "login"
    /\ LoginInternalRespond(p, o)
    /\ EvtReturning(p, LoginResult(o))
    /\ refreshMu' = 0
    /\ loginUser' = [loginUser EXCEPT ![p] = "nil"]
    /\ UNCHANGED credentials

\* ClearCredentials: c.credentials = nil, nothing else
ClearCredentials == credentials' = "nil"

\* ------------------------------------- goroutines calling ensureValidToken
\* A client that has logged in as u1 some time ago (or not at all, or has
\* cleared its credentials since); every goroutine calls ensureValidToken
\* once.

\* the token is one a refresh of this run installed, and it needs refresh
StaleNow(tok, expiresIn, n) == n > 0 /\ tok # "" /\ NeedsRefresh(tok, expiresIn)

SessCall(p) ==
    /\ pc[p] = "idle"
    /\ EnsureValidTokenEnter(p)
    /\ pc' = [pc EXCEPT ![p] = "evt"]
    /\ slowPath' = [slowPath EXCEPT ![p] = (epc'[p] = "lock" /\ authOutcomes = {})]
    /\ doomed' = [doomed EXCEPT ![p] = tokenNeedsRefresh
                                          /\ (~autoRefresh \/ credentials = "nil")]
    /\ UNCHANGED <<queueVars, pipeVars, steps, limHist, ctx, confVars, nAuth, authOutcomes, stale>>

SessLock(p) ==
    /\ pc[p] = "evt"
    /\ EnsureValidTokenLock(p)
    /\ UNCHANGED <<queueVars, pipeVars, steps, limHist, ctx, pc, confVars, sessHist>>

SessRefresh(p) ==
    /\ pc[p] = "evt"
    /\ RefreshToken(p)
    /\ nAuth' = IF http'[p] = "login" THEN nAuth + 1 ELSE nAuth
    /\ UNCHANGED <<queueVars, pipeVars, steps, limHist, ctx, pc, confVars, authOutcomes, stale,
                   slowPath, doomed>>

SessRefreshDone(p) ==
    /\ pc[p] = "evt"
    /\ \E o \in Answers(p, LoginResponses) :
          /\ RefreshTokenDone(p, o)
          /\ authOutcomes' = authOutcomes \cup {o}
    /\ stale' = (stale \/ StaleNow(token', tokenExpiry', nAuth))
    /\ UNCHANGED <<queueVars, pipeVars, steps, limHist, ctx, pc, confVars, nAuth, slowPath,
                   doomed>>

SessTick ==
    /\ tokenExpiry >= 0
    /\ ClockTick
    /\ stale' = (stale \/ StaleNow(token, tokenExpiry', nAuth))
    /\ UNCHANGED <<queueVars, pipeVars, steps, limHist, ctx, pc, confVars, token, credentials, refreshMu, epc,
                   eret, http, loginUser, nAuth, authOutcomes, slowPath, doomed>>

\* the context of a caller blocked in c.refreshMu.Lock() is cancelled
SessCtxDone(p) ==
    /\ pc[p] = "evt"
    /\ epc[p] = "lock"
    /\ CtxDone(p, "Canceled")
    /\ UNCHANGED <<gateVars, histVars, panicked, reClosed, unmatched, pc, sessVars,
                   confVars, sessHist, pipeVars, steps, limHist>>

\* some goroutine calls ClearCredentials
SessClear ==
    /\ credentials # "nil"
    /\ ClearCredentials
    /\ UNCHANGED <<queueVars, pipeVars, steps, limHist, ctx, pc, confVars, sessHist,
                   token, tokenExpiry, refreshMu, epc, eret, http, loginUser>>

SessInit ==
    /\ QueueNew
    /\ qpc = [p \in Callers |-> "none"]
    /\ qret = [p \in Callers |-> "nil"]
    /\ ctx = [p \in Callers |-> "live"]
    /\ pc = [p \in Callers |-> "idle"]
    /\ panicked = "none"
    /\ reClosed = FALSE
    /\ held = [p \in Callers |-> FALSE]
    /\ ctxAtCall = [p \in Callers |-> "live"]
    /\ afterClose = [p \in Callers |-> FALSE]
    /\ parkedAtCall = [p \in Callers |-> FALSE]
    /\ parkedAtClose = [p \in Callers |-> FALSE]
    /\ unmatched = FALSE
    /\ relAfterClose = FALSE
    /\ autoRefresh \in BOOLEAN
    /\ tokenLifetime \in 1..MaxLifetime
    /\ refreshThreshold \in 0..MaxLifetime
    /\ refreshMu = 0
    /\ epc = [p \in Callers |-> "none"]
    /\ eret = [p \in Callers |-> "nil"]
    /\ http = [p \in Callers |-> "none"]
    /\ loginUser = [p \in Callers |-> "nil"]
    /\ rateLimit = 0
    /\ LimiterNew(0)
    /\ timer = [p \in Callers |-> 0]
    /\ op = [p \in Callers |-> "none"]
    /\ lastErr = [p \in Callers |-> "none"]
    /\ steps = [p \in Callers |-> <<>>]
    /\ LimHistInit
    /\ SessHistInit
    /\ \/ token = "" /\ tokenExpiry = -1 /\ credentials = "nil"
       \/ token = "u1" /\ tokenExpiry \in -1..tokenLifetime /\ credentials \in {"u1", "nil"}
       \/ token = "" /\ tokenExpiry \in -1..tokenLifetime /\ credentials = "u1"

SessNext ==
    \/ \E p \in Callers :
          \/ SessCall(p)
          \/ SessLock(p)
          \/ SessRefresh(p)
          \/ SessRefreshDone(p)
    \/ SessTick

SpecSession == SessInit /\ [][SessNext]_vars

\* the same, with contexts that are cancelled while their caller waits for
\* the refresh lock, and with ClearCredentials called at any moment
RefreshNext ==
    \/ \E p \in Clients :
          \/ SessCall(p)
          \/ SessLock(p)
          \/ SessRefresh(p)
          \/ SessRefreshDone(p)
          \/ SessCtxDone(p)
    \/ SessTick
    \/ SessClear

SpecRefresh == SessInit /\ [][RefreshNext]_vars

\* every goroutine keeps running and every login request is answered
RefreshFairness ==
    \A p \in Clients :
        /\ WF_vars(SessLock(p))
        /\ WF_vars(SessRefresh(p))
        /\ WF_vars(SessRefreshDone(p))

SpecRefreshLive == SpecRefresh /\ RefreshFairness

\* --------------------------------------------- goroutines using a bare Queue
\* Each goroutine repeats: Acquire(ctx); on success, critical section, Release.
\* Any goroutine may call Close when it is not inside Acquire.

GateCallAcquire(p) ==
    /\ panicked = "none"
    /\ pc[p] = "idle"
    /\ \E c \in CtxStates :
          /\ ctx' = [ctx EXCEPT ![p] = c]
          /\ AcquireEnter(p, c)
    /\ pc' = [pc EXCEPT ![p] = "acquire"]
    /\ UNCHANGED <<panicked, reClosed, unmatched>>
    /\ UNCHANGED <<sessVars, sessHist, confVars, pipeVars, steps, limHist>>

GateCheckClosed(p) ==
    /\ panicked = "none"
    /\ pc[p] = "acquire"
    /\ AcquireCheckClosed(p)
    /\ UNCHANGED <<ctx, pc, panicked, reClosed, unmatched>>
    /\ UNCHANGED <<sessVars, sessHist, confVars, pipeVars, steps, limHist>>

GateSelect(p) ==
    /\ panicked = "none"
    /\ pc[p] = "acquire"
    /\ AcquireSelect(p)
    /\ UNCHANGED <<ctx, pc, panicked, reClosed, unmatched>>
    /\ UNCHANGED <<sessVars, sessHist, confVars, pipeVars, steps, limHist>>

GateCtxDone(p) ==
    /\ panicked = "none"
    /\ pc[p] = "acquire"
    /\ qpc[p] \in {"l52", "parked"}
    /\ \E e \in CtxErrs : CtxDone(p, e)
    /\ UNCHANGED <<gateVars, histVars, pc, panicked, reClosed, unmatched>>
    /\ UNCHANGED <<sessVars, sessHist, confVars, pipeVars, steps, limHist>>

\* Acquire has returned to the caller
GateAcquireReturn(p) ==
    /\ panicked = "none"
    /\ pc[p] = "acquire"
    /\ qpc[p] = "ret"
    /\ pc' = [pc EXCEPT ![p] = IF qret[p] = "nil" THEN "holding" ELSE "idle"]
    /\ qpc' = [qpc EXCEPT ![p] = "none"]
    /\ qret' = [qret EXCEPT ![p] = "nil"]
    /\ ctx' = [ctx EXCEPT ![p] = "live"]
    /\ ctxAtCall' = [ctxAtCall EXCEPT ![p] = "live"]
    /\ afterClose' = [afterClose EXCEPT ![p] = FALSE]
    /\ parkedAtCall' = [parkedAtCall EXCEPT ![p] = FALSE]
    /\ parkedAtClose' = [parkedAtClose EXCEPT ![p] = FALSE]
    /\ UNCHANGED <<gateVars, held, relAfterClose, panicked, reClosed, unmatched>>
    /\ UNCHANGED <<sessVars, sessHist, confVars, pipeVars, steps, limHist>>

\* the Release that follows the caller's own successful Acquire
GateRelease(p) ==
    /\ panicked = "none"
    /\ pc[p] = "holding"
    /\ Release(p)
    /\ pc' = [pc EXCEPT ![p] = "idle"]
    /\ UNCHANGED <<ctx, reClosed, unmatched>>
    /\ UNCHANGED <<sessVars, sessHist, confVars, pipeVars, steps, limHist>>

\* a Release with no matching successful Acquire of the caller
GateReleaseUnmatched(p) ==
    /\ panicked = "none"
    /\ pc[p] = "idle"
    /\ Release(p)
    /\ unmatched' = TRUE
    /\ UNCHANGED <<pc, ctx, reClosed>>
    /\ UNCHANGED <<sessVars, sessHist, confVars, pipeVars, steps, limHist>>

Closing == {p \in Callers : pc[p] \in {"closing", "closingHolding"}}

GateCloseCall(p) ==
    /\ panicked = "none"
    /\ pc[p] \in {"idle", "holding"}
    /\ CloseCall
    /\ pc' = [pc EXCEPT ![p] = IF pc[p] = "idle" THEN "closing" ELSE "closingHolding"]
    /\ UNCHANGED <<ctx, unmatched>>
    /\ UNCHANGED <<sessVars, sessHist, confVars, pipeVars, steps, limHist>>

GateClose(p) ==
    /\ panicked = "none"
    /\ p \in Closing
    /\ Close
    /\ pc' = [pc EXCEPT ![p] = IF pc[p] = "closing" THEN "idle" ELSE "holding"]
    /\ UNCHANGED <<ctx, unmatched>>
    /\ UNCHANGED <<sessVars, sessHist, confVars, pipeVars, steps, limHist>>

GateInit ==
    /\ QueueNew
    /\ qpc = [p \in Callers |-> "none"]
    /\ qret = [p \in Callers |-> "nil"]
    /\ ctx = [p \in Callers |-> "live"]
    /\ pc = [p \in Callers |-> "idle"]
    /\ panicked = "none"
    /\ reClosed = FALSE
    /\ held = [p \in Callers |-> FALSE]
    /\ ctxAtCall = [p \in Callers |-> "live"]
    /\ afterClose = [p \in Callers |-> FALSE]
    /\ parkedAtCall = [p \in Callers |-> FALSE]
    /\ parkedAtClose = [p \in Callers |-> FALSE]
    /\ unmatched = FALSE
    /\ relAfterClose = FALSE
    /\ ClientNew
    /\ rateLimit = 0
    /\ LimiterNew(0)
    /\ timer = [p \in Callers |-> 0]
    /\ op = [p \in Callers |-> "none"]
    /\ lastErr = [p \in Callers |-> "none"]
    /\ steps = [p \in Callers |-> <<>>]
    /\ LimHistInit
    /\ SessHistInit
    /\ autoRefresh = TRUE
    /\ tokenLifetime = MaxLifetime
    /\ refreshThreshold = 1

GateNext ==
    \E p \in Callers :
        \/ GateCallAcquire(p)
        \/ GateCheckClosed(p)
        \/ GateSelect(p)
        \/ GateCtxDone(p)
        \/ GateAcquireReturn(p)
        \/ GateRelease(p)
        \/ GateCloseCall(p)
        \/ GateClose(p)

\* callers that release only after their own successful Acquire
SpecGate == GateInit /\ [][GateNext]_vars

GateMisuseNext ==
    \/ GateNext
    \/ \E p \in Callers : GateReleaseUnmatched(p)

\* callers that may also call Release without a matching Acquire
SpecGateMisuse == GateInit /\ [][GateMisuseNext]_vars

\* ------------------------------------------- Client: guarded operations
\* Goroutines 1..NumClients call the Client's operations: an entry or
\* attachment request ("entry"), Logout, or Login with a username.  Any
\* goroutine may call Client.Close at any time.

Ops == {"entry", "logout", "login"}

\* the context an operation is called with: live, or already cancelled
CallCtx == {"live", "Canceled"}

\* the usernames Login is called with; the token the server issues for u is
\* written u, the empty token ""
LoginAs == {"u1"}

\* ---- the history of an operation
\* steps[p] lists, in the order they happened, the calls p's operation has
\* completed, each with what was true at that moment:
\*   "ensureValidToken"              returned nil; the token did not need
\*                                   refresh when it decided
\*   "ensureValidToken (relogin)"    returned nil after its own
\*                                   re-authentication was answered 200, yet
\*                                   the token installed needs refresh
\*   "ensureValidToken (unchecked)"  returned nil in any other circumstances
\*   "ensureValidToken failed"       returned an error
\*   "Acquire"                       queue.Acquire returned nil
\*   "Wait"                          rateLimiter.Wait returned nil, having
\*                                   taken a token
\*   "Wait (no token)"               rateLimiter.Wait returned nil, having
\*                                   taken none
\*   "request"                       the operation's request was sent
\*   "request (token needs refresh)" the same, while the stored token was
\*                                   empty or needed refresh
\*   "Release"                       queue.Release was called
\*   "invalid arguments"             (first) an entry operation was called
\*                                   with an empty form name or entry ID
\* Once the operation has returned, only the calls are kept.
Record(p, s) == steps' = [steps EXCEPT ![p] = Append(@, s)]

EvtStep(p) ==
    IF eret'[p] # "nil" THEN "ensureValidToken failed"
    ELSE IF ~NeedsRefresh(token', tokenExpiry') THEN "ensureValidToken"
    ELSE IF epc[p] = "login" THEN "ensureValidToken (relogin)"
    ELSE "ensureValidToken (unchecked)"

\* the step of ensureValidToken just taken is recorded if it made it return
EvtRecord(p) ==
    IF epc'[p] = "ret" THEN Record(p, EvtStep(p)) ELSE UNCHANGED steps

\* what a round of Wait adds: nothing while it has to sleep
WaitSteps ==
    IF rateLimit = 0 \/ WaitTime # 0 THEN <<>>
    ELSE IF Refilled >= TokenUnit THEN <<"Wait">> ELSE <<"Wait (no token)">>

RequestStep(p) ==
    IF op[p] # "login" /\ tokenNeedsRefresh
       THEN "request (token needs refresh)" ELSE "request"

Range(h) == {h[i] : i \in DOMAIN h}

\* the call a history entry stands for
Kind(s) ==
    CASE s \in {"ensureValidToken", "ensureValidToken (relogin)",
                "ensureValidToken (unchecked)"} -> "ensureValidToken"
      [] s \in {"Wait", "Wait (no token)"} -> "Wait"
      [] s \in {"request", "request (token needs refresh)"} -> "request"
      [] OTHER -> s

Kinds(h) == [i \in DOMAIN h |-> Kind(h[i])]

\* the operation returns to its caller, with error e ("none": success)
OpReturns(p, e) ==
    /\ pc' = [pc EXCEPT ![p] = "idle"]
    /\ lastErr' = [lastErr EXCEPT ![p] = e]
    /\ op' = [op EXCEPT ![p] = "none"]
    /\ ctx' = [ctx EXCEPT ![p] = "live"]

\* c.queue.Release() as the operations call it: deferred after a successful
\* acquireAndRateLimit / loginAcquireQueue, or directly when Wait fails
DeferredRelease(p) ==
    /\ Release(p)
    /\ steps' = [steps EXCEPT ![p] = Append(Kinds(@), "Release")]
    /\ unmatched' = (unmatched \/ ~held[p])
    /\ UNCHANGED reClosed

\* an operation is called.  Login goes to loginAcquireQueue: queue.Acquire;
\* Logout returns nil at once if there is no token; everything else starts
\* acquireAndRateLimit.
PipeCall(p) ==
    /\ panicked = "none"
    /\ UNCHANGED limHist
    /\ steps' = [steps EXCEPT ![p] = <<>>]
    /\ pc[p] = "idle"
    /\ \E o \in Ops, c \in CallCtx :
          CASE o = "login" ->
                 /\ \E u \in LoginAs : loginUser' = [loginUser EXCEPT ![p] = u]
                 /\ AcquireEnter(p, c)
                 /\ pc' = [pc EXCEPT ![p] = "acq"]
                 /\ op' = [op EXCEPT ![p] = o]
                 /\ ctx' = [ctx EXCEPT ![p] = c]
                 /\ lastErr' = [lastErr EXCEPT ![p] = "none"]
                 /\ UNCHANGED <<token, tokenExpiry, credentials, refreshMu, epc,
                                eret, http>>
            [] o = "logout" /\ token = "" ->
                 /\ lastErr' = [lastErr EXCEPT ![p] = "none"]
                 /\ UNCHANGED <<sem, closed, closeOnce, qpc, qret, histVars,
                                sessVars, pc, op, ctx>>
            [] OTHER ->
                 /\ pc' = [pc EXCEPT ![p] = "evt"]
                 /\ op' = [op EXCEPT ![p] = o]
                 /\ ctx' = [ctx EXCEPT ![p] = c]
                 /\ lastErr' = [lastErr EXCEPT ![p] = "none"]
                 /\ UNCHANGED <<sem, closed, closeOnce, qpc, qret, histVars,
                                sessVars>>
    /\ UNCHANGED <<panicked, reClosed, unmatched, confVars, sessHist, rateLimit,
                   limVars, timer>>

\* acquireAndRateLimit: c.ensureValidToken(ctx), step by step
PipeEnsure(p) ==
    /\ panicked = "none"
    /\ UNCHANGED limHist
    /\ pc[p] = "evt"
    /\ EnsureValidTokenEnter(p)
    /\ EvtRecord(p)
    /\ UNCHANGED <<queueVars, ctx, pc, confVars, sessHist, pipeVars>>

PipeLock(p) ==
    /\ panicked = "none"
    /\ UNCHANGED limHist
    /\ pc[p] = "evt"
    /\ EnsureValidTokenLock(p)
    /\ EvtRecord(p)
    /\ UNCHANGED <<queueVars, ctx, pc, confVars, sessHist, pipeVars>>

PipeRefresh(p) ==
    /\ panicked = "none"
    /\ UNCHANGED limHist
    /\ pc[p] = "evt"
    /\ RefreshToken(p)
    /\ EvtRecord(p)
    /\ UNCHANGED <<queueVars, ctx, pc, confVars, sessHist, pipeVars>>

PipeRefreshDone(p) ==
    /\ panicked = "none"
    /\ UNCHANGED limHist
    /\ pc[p] = "evt"
    /\ \E o \in Answers(p, LoginResponses) : RefreshTokenDone(p, o)
    /\ EvtRecord(p)
    /\ UNCHANGED <<queueVars, ctx, pc, confVars, sessHist, pipeVars>>

\* acquireAndRateLimit: if err := c.ensureValidToken(ctx); err != nil
EnsureFailedIgnored(p) == FALSE

EnsureFailed(p) == eret[p] # "nil"

\* acquireAndRateLimit: ensureValidToken has returned; on error return it,
\* otherwise call c.queue.Acquire(ctx)
PipeEnsureReturn(p) ==
    /\ panicked = "none"
    /\ UNCHANGED limHist
    /\ UNCHANGED steps
    /\ pc[p] = "evt"
    /\ epc[p] = "ret"
    /\ epc' = [epc EXCEPT ![p] = "none"]
    /\ eret' = [eret EXCEPT ![p] = "nil"]
    /\ IF EnsureFailed(p)
          THEN /\ OpReturns(p, "ensureValidToken")
               /\ UNCHANGED <<sem, closed, closeOnce, qpc, qret, histVars>>
          ELSE /\ AcquireEnter(p, ctx[p])
               /\ pc' = [pc EXCEPT ![p] = "acq"]
               /\ UNCHANGED <<ctx, op, lastErr>>
    /\ UNCHANGED <<panicked, reClosed, unmatched, token, tokenExpiry, credentials,
                   refreshMu, http, loginUser, confVars, sessHist, rateLimit,
                   limVars, timer>>

PipeCheckClosed(p) ==
    /\ panicked = "none"
    /\ UNCHANGED <<steps, limHist>>
    /\ pc[p] = "acq"
    /\ AcquireCheckClosed(p)
    /\ UNCHANGED <<panicked, reClosed, unmatched, ctx, pc, sessVars, confVars,
                   sessHist, pipeVars>>

PipeSelect(p) ==
    /\ panicked = "none"
    /\ UNCHANGED <<steps, limHist>>
    /\ pc[p] = "acq"
    /\ AcquireSelect(p)
    /\ UNCHANGED <<panicked, reClosed, unmatched, ctx, pc, sessVars, confVars,
                   sessHist, pipeVars>>

\* the caller cancels the context of its operation in progress: before
\* Acquire is called, while Acquire is at its select, or during the rate
\* limiter's sleep
PipeCtxDone(p) ==
    /\ panicked = "none"
    /\ UNCHANGED <<steps, limHist>>
    /\ \/ pc[p] = "evt" /\ epc[p] = "ret"
       \/ pc[p] = "acq" /\ qpc[p] \in {"l52", "parked"}
       \/ pc[p] = "sleep"
    /\ CtxDone(p, "Canceled")
    /\ UNCHANGED <<gateVars, histVars, panicked, reClosed, unmatched, pc, sessVars,
                   confVars, sessHist, pipeVars>>

\* rateLimiter.Wait, one round of its loop: take a token and return nil, or
\* arm time.After(waitTime); a waitTime of 0 also returns nil
WaitRound(p) ==
    IF rateLimit = 0
       THEN /\ pc' = [pc EXCEPT ![p] = "send"]
            /\ UNCHANGED <<limVars, timer>>
       ELSE /\ TryAcquireOrGetWaitTime
            /\ pc' = [pc EXCEPT ![p] = IF WaitTime = 0 THEN "send" ELSE "sleep"]
            /\ timer' = [timer EXCEPT ![p] = WaitTime]

\* c.queue.Acquire has returned, in acquireAndRateLimit or in Login's
\* loginAcquireQueue.  On error the operation returns it; otherwise
\* c.rateLimiter.Wait(ctx) is next if a rate limiter is configured.
PipeAcquireReturn(p) ==
    /\ panicked = "none"
    /\ UNCHANGED limHist
    /\ pc[p] = "acq"
    /\ qpc[p] = "ret"
    /\ qpc' = [qpc EXCEPT ![p] = "none"]
    /\ qret' = [qret EXCEPT ![p] = "nil"]
    /\ ctxAtCall' = [ctxAtCall EXCEPT ![p] = "live"]
    /\ afterClose' = [afterClose EXCEPT ![p] = FALSE]
    /\ parkedAtCall' = [parkedAtCall EXCEPT ![p] = FALSE]
    /\ parkedAtClose' = [parkedAtClose EXCEPT ![p] = FALSE]
    /\ IF qret[p] # "nil"
          THEN /\ OpReturns(p, "queue")
               /\ loginUser' = [loginUser EXCEPT ![p] = "nil"]
               /\ steps' = [steps EXCEPT ![p] = Kinds(@)]
               /\ UNCHANGED <<limVars, timer>>
          ELSE /\ WaitRound(p)
               /\ steps' = [steps EXCEPT ![p] = @ \o <<"Acquire">> \o WaitSteps]
               /\ UNCHANGED <<ctx, op, lastErr, loginUser>>
    /\ UNCHANGED <<gateVars, held, relAfterClose, panicked, reClosed, unmatched,
                   token, tokenExpiry, credentials, refreshMu, epc, eret, http,
                   confVars, sessHist, rateLimit>>

\* Wait: case <-time.After(waitTime): try again
PipeTimerFire(p) ==
    /\ panicked = "none"
    /\ UNCHANGED limHist
    /\ steps' = [steps EXCEPT ![p] = @ \o WaitSteps]
    /\ pc[p] = "sleep"
    /\ timer[p] = 0
    /\ WaitRound(p)
    /\ UNCHANGED <<queueVars, ctx, sessVars, confVars, sessHist, rateLimit, op,
                   lastErr>>

\* Wait: case <-ctx.Done(): return ctx.Err(); acquireAndRateLimit (or
\* loginAcquireQueue) releases the queue and returns the error
WaitCancelledNoRelease(p) ==
    /\ OpReturns(p, "rateLimiter")
    /\ UNCHANGED <<queueVars, steps>>

WaitCancelled(p) ==
    /\ DeferredRelease(p)
    /\ OpReturns(p, "rateLimiter")

PipeWaitCancelled(p) ==
    /\ panicked = "none"
    /\ UNCHANGED limHist
    /\ pc[p] = "sleep"
    /\ ctx[p] # "live"
    /\ WaitCancelled(p)
    /\ loginUser' = [loginUser EXCEPT ![p] = "nil"]
    /\ UNCHANGED <<token, tokenExpiry, credentials, refreshMu, epc, eret, http,
                   confVars, sessHist, rateLimit, limVars, timer>>

\* the operation builds its request and hands it to c.do
PipeSend(p) ==
    /\ panicked = "none"
    /\ UNCHANGED limHist
    /\ Record(p, RequestStep(p))
    /\ pc[p] = "send"
    /\ pc' = [pc EXCEPT ![p] = "inflight"]
    /\ IF op[p] = "login"
          THEN LoginInternalSend(p, loginUser[p])
          ELSE http' = [http EXCEPT ![p] = op[p]] /\ UNCHANGED loginUser
    /\ UNCHANGED <<queueVars, ctx, token, tokenExpiry, credentials, refreshMu, epc,
                   eret, confVars, sessHist, pipeVars>>

\* the response (or the failure of c.do) arrives.
\*   entry:  the result is returned; the deferred Release runs
\*   Logout: c.setToken("") whatever the outcome; the deferred Release runs
\*   Login:  loginInternal installs the token; on error the deferred Release
\*           runs, otherwise storeCredentials is next
PipeRespond(p) ==
    /\ panicked = "none"
    /\ UNCHANGED limHist
    /\ pc[p] = "inflight"
    /\ CASE op[p] = "entry" ->
              \E o \in Answers(p, {"ok", "fail"}) :
                  /\ http' = [http EXCEPT ![p] = "none"]
                  /\ DeferredRelease(p)
                  /\ OpReturns(p, IF o = "fail" THEN "http" ELSE "none")
                  /\ UNCHANGED <<token, tokenExpiry, loginUser>>
         [] op[p] = "logout" ->
              \E o \in Answers(p, {"ok", "fail"}) :
                  /\ http' = [http EXCEPT ![p] = "none"]
                  /\ SetToken("")
                  /\ DeferredRelease(p)
                  /\ OpReturns(p, IF o = "fail" THEN "logout request" ELSE "none")
                  /\ UNCHANGED <<tokenExpiry, loginUser>>
         [] op[p] = "login" ->
              \E o \in Answers(p, LoginResponses) :
                  /\ LoginInternalRespond(p, o)
                  /\ IF o = "fail"
                        THEN /\ DeferredRelease(p)
                             /\ OpReturns(p, "http")
                             /\ loginUser' = [loginUser EXCEPT ![p] = "nil"]
                        ELSE /\ pc' = [pc EXCEPT ![p] = "store"]
                             /\ UNCHANGED <<queueVars, ctx, op, lastErr, loginUser,
                                            steps>>
    /\ UNCHANGED <<credentials, refreshMu, epc, eret, confVars, sessHist, rateLimit,
                   limVars, timer>>

\* Login: c.storeCredentials(username, password); return nil; the deferred
\* Release runs
PipeStore(p) ==
    /\ panicked = "none"
    /\ UNCHANGED limHist
    /\ pc[p] = "store"
    /\ credentials' = loginUser[p]
    /\ loginUser' = [loginUser EXCEPT ![p] = "nil"]
    /\ DeferredRelease(p)
    /\ OpReturns(p, "none")
    /\ UNCHANGED <<token, tokenExpiry, refreshMu, epc, eret, http, confVars,
                   sessHist, rateLimit, limVars, timer>>

\* Client.Close: c.queue.Close().  Only the first call is taken: closeOnce
\* makes every later one return without touching the queue.
PipeClose ==
    /\ panicked = "none"
    /\ UNCHANGED <<steps, limHist>>
    /\ ~closeOnce
    /\ Close
    /\ UNCHANGED <<unmatched, ctx, pc, sessVars, confVars, sessHist, pipeVars>>

\* a second passes (the session's clock is read in whole seconds): the token
\* ages, the limiter's bucket is a second further from its last refill, the
\* pending timers are a second nearer
PipeTick ==
    /\ panicked = "none"
    /\ UNCHANGED <<steps, limHist>>
    /\ tokenExpiry >= 0 \/ (rateLimit > 0 /\ limElapsed < TicksPerSecond)
          \/ \E p \in Clients : timer[p] > 0
    /\ ClockTick
    /\ TimePasses(TicksPerSecond)
    /\ UNCHANGED <<queueVars, ctx, pc, token, credentials, refreshMu, epc, eret,
                   http, loginUser, confVars, sessHist, rateLimit, limTokens, op,
                   lastErr>>

\* New(baseURL, opts...): no token, no credentials, a fresh queue, and the
\* rate limiter if WithRateLimit was given (here with a rate of one request
\* per second or more)
PipeInit ==
    /\ QueueNew
    /\ qpc = [p \in Callers |-> "none"]
    /\ qret = [p \in Callers |-> "nil"]
    /\ ctx = [p \in Callers |-> "live"]
    /\ pc = [p \in Callers |-> "idle"]
    /\ panicked = "none"
    /\ reClosed = FALSE
    /\ held = [p \in Callers |-> FALSE]
    /\ ctxAtCall = [p \in Callers |-> "live"]
    /\ afterClose = [p \in Callers |-> FALSE]
    /\ parkedAtCall = [p \in Callers |-> FALSE]
    /\ parkedAtClose = [p \in Callers |-> FALSE]
    /\ unmatched = FALSE
    /\ relAfterClose = FALSE
    /\ ClientNew
    /\ SessHistInit
    /\ autoRefresh = TRUE
    /\ tokenLifetime = MaxLifetime
    /\ refreshThreshold = 1
    /\ rateLimit \in {0} \cup RateDen..MaxRate
    /\ LimiterNew(rateLimit)
    /\ timer = [p \in Callers |-> 0]
    /\ op = [p \in Callers |-> "none"]
    /\ lastErr = [p \in Callers |-> "none"]
    /\ steps = [p \in Callers |-> <<>>]
    /\ LimHistInit

PipeNext ==
    \/ \E p \in Clients :
          \/ PipeCall(p)
          \/ PipeEnsure(p)
          \/ PipeLock(p)
          \/ PipeRefresh(p)
          \/ PipeRefreshDone(p)
          \/ PipeEnsureReturn(p)
          \/ PipeCheckClosed(p)
          \/ PipeSelect(p)
          \/ PipeCtxDone(p)
          \/ PipeAcquireReturn(p)
          \/ PipeTimerFire(p)
          \/ PipeWaitCancelled(p)
          \/ PipeSend(p)
          \/ PipeRespond(p)
          \/ PipeStore(p)
    \/ PipeClose
    \/ PipeTick

\* a Client used by concurrent goroutines
SpecClient == PipeInit /\ [][PipeNext]_vars

\* ------------------------------------------- goroutines sharing a Limiter
\* One Limiter made by ratelimit.New with any positive rate; the goroutines
\* call Allow and Wait on it, with contexts that are live, already done, or
\* become done while Wait sleeps.  Calls are made until MaxGrants of them
\* have succeeded.

LimFrame ==
    UNCHANGED <<sem, closed, closeOnce, qpc, qret, panicked, reClosed, held,
                afterClose, parkedAtCall, parkedAtClose, unmatched, relAfterClose,
                sessVars, sessHist, confVars, rateLimit, op, lastErr, steps>>

\* the call of p that is returning r is counted
Returned(p, r) ==
    /\ pc' = [pc EXCEPT ![p] = "idle"]
    /\ limRet' = [limRet EXCEPT ![p] = r]
    /\ granted' = IF r \in {"true", "nil"} THEN granted + 1 ELSE granted
    /\ allowed' = IF r = "true" THEN allowed + 1 ELSE allowed

\* l.Allow()
LimAllow(p) ==
    /\ pc[p] = "idle"
    /\ granted < MaxGrants
    /\ Allow
    /\ Returned(p, IF AllowResult THEN "true" ELSE "false")
    /\ took' = [took EXCEPT ![p] = AllowResult]
    /\ early' = [early EXCEPT ![p] = FALSE]
    /\ ctxAtCall' = [ctxAtCall EXCEPT ![p] = "live"]
    /\ ctx' = [ctx EXCEPT ![p] = "live"]
    /\ UNCHANGED <<timer, age>>
    /\ LimFrame

\* one round of Wait's loop with context c: tryAcquireOrGetWaitTime, then
\* return nil if it answered 0, else sleep in the select
LimRound(p, c) ==
    /\ TryAcquireOrGetWaitTime
    /\ took' = [took EXCEPT ![p] = Refilled >= TokenUnit]
    /\ IF WaitTime = 0
          THEN /\ Returned(p, "nil")
               /\ timer' = [timer EXCEPT ![p] = 0]
          ELSE /\ pc' = [pc EXCEPT ![p] = "sleep"]
               /\ timer' = [timer EXCEPT ![p] = WaitTime]
               /\ limRet' = [limRet EXCEPT ![p] = "none"]
               /\ UNCHANGED <<granted, allowed>>

\* l.Wait(ctx) is called, with a context in state c
LimWaitCall(p) ==
    /\ pc[p] = "idle"
    /\ granted < MaxGrants
    /\ \E c \in CtxStates :
          /\ ctx' = [ctx EXCEPT ![p] = c]
          /\ ctxAtCall' = [ctxAtCall EXCEPT ![p] = c]
          /\ early' = [early EXCEPT ![p] = (c # "live" /\ Refilled < TokenUnit)]
          /\ LimRound(p, c)
    /\ UNCHANGED age
    /\ LimFrame

\* Wait: case <-time.After(waitTime): the next round
LimTimerFire(p) ==
    /\ pc[p] = "sleep"
    /\ timer[p] = 0
    /\ LimRound(p, ctx[p])
    /\ UNCHANGED <<ctx, ctxAtCall, early, age>>
    /\ LimFrame

\* the context of a sleeping Wait is cancelled or passes its deadline
LimCtxDone(p) ==
    /\ pc[p] = "sleep"
    /\ ctx[p] = "live"
    /\ \E e \in CtxErrs : ctx' = [ctx EXCEPT ![p] = e]
    /\ early' = [early EXCEPT ![p] = timer[p] > 0]
    /\ UNCHANGED <<pc, ctxAtCall, limVars, timer, granted, allowed, age, took,
                   limRet>>
    /\ LimFrame

\* Wait: case <-ctx.Done(): return ctx.Err()
LimWaitCancelled(p) ==
    /\ pc[p] = "sleep"
    /\ ctx[p] # "live"
    /\ Returned(p, ctx[p])
    /\ timer' = [timer EXCEPT ![p] = 0]
    /\ UNCHANGED <<ctx, ctxAtCall, limVars, age, took, early>>
    /\ LimFrame

\* a tick passes
LimTick ==
    /\ TimePasses(1)
    /\ age' = Min(MaxAge, age + 1)
    /\ UNCHANGED <<pc, ctx, ctxAtCall, limTokens, granted, allowed, took, early,
                   limRet>>
    /\ LimFrame

\* ratelimit.New(rateLimit / RateDen), rateLimit > 0
LimInit ==
    /\ QueueNew
    /\ qpc = [p \in Callers |-> "none"]
    /\ qret = [p \in Callers |-> "nil"]
    /\ ctx = [p \in Callers |-> "live"]
    /\ pc = [p \in Callers |-> "idle"]
    /\ panicked = "none"
    /\ reClosed = FALSE
    /\ held = [p \in Callers |-> FALSE]
    /\ ctxAtCall = [p \in Callers |-> "live"]
    /\ afterClose = [p \in Callers |-> FALSE]
    /\ parkedAtCall = [p \in Callers |-> FALSE]
    /\ parkedAtClose = [p \in Callers |-> FALSE]
    /\ unmatched = FALSE
    /\ relAfterClose = FALSE
    /\ ClientNew
    /\ SessHistInit
    /\ autoRefresh = TRUE
    /\ tokenLifetime = MaxLifetime
    /\ refreshThreshold = 1
    /\ rateLimit \in 1..MaxRate
    /\ LimiterNew(rateLimit)
    /\ timer = [p \in Callers |-> 0]
    /\ op = [p \in Callers |-> "none"]
    /\ lastErr = [p \in Callers |-> "none"]
    /\ steps = [p \in Callers |-> <<>>]
    /\ LimHistInit

LimNext ==
    \/ \E p \in Clients :
          \/ LimAllow(p)
          \/ LimWaitCall(p)
          \/ LimTimerFire(p)
          \/ LimCtxDone(p)
          \/ LimWaitCancelled(p)
    \/ LimTick

SpecLimiter == LimInit /\ [][LimNext]_vars

\* time passes, and a goroutine whose select has a ready case runs
LimFairness ==
    /\ WF_vars(LimTick)
    /\ \A p \in Clients : WF_vars(LimTimerFire(p)) /\ WF_vars(LimWaitCancelled(p))

SpecLimiterLive == SpecLimiter /\ LimFairness

\* ------------------------------------------------------------ gate claims

Holders == {p \in Callers : held[p]}

\* C1: under any interleaving of Acquire, Release and Close by callers that
\* release only after their own successful Acquire, the number of successful
\* Acquire calls not yet followed by their Release is 0 or 1 (and it is the
\* number of elements in the semaphore).
C1_MutualExclusion ==
    /\ Cardinality(Holders) <= 1
    /\ Cardinality(Holders) = sem

\* a caller is in its critical section while another is blocked in Acquire
\* and a third has been handed nothing: the slot is contended
C1_Witness ==
    \E p, q \in Callers :
        /\ p # q
        /\ pc[p] = "holding" /\ held[p]
        /\ qpc[q] = "parked"

\* C5 (as stated): after Close() has returned, every subsequent Acquire call,
\* with any context state, fails with ErrQueueClosed.
C5_AfterCloseAlwaysErrQueueClosed ==
    \A p \in Callers :
        (afterClose[p] /\ qpc[p] = "ret") => qret[p] = "ErrQueueClosed"

\* C5 (amended): an Acquire called after Close() has returned never reaches
\* the blocking select and never takes the slot; it returns the context's
\* error if the context was already cancelled or expired at the call, and
\* ErrQueueClosed otherwise.
C5_AfterCloseFails ==
    \A p \in Callers :
        afterClose[p] =>
            /\ qpc[p] \in {"l46", "ret"}
            /\ ~held[p]
            /\ qpc[p] = "ret" =>
                  qret[p] = (IF ctxAtCall[p] # "live" THEN ctxAtCall[p]
                                                      ELSE "ErrQueueClosed")

\* an Acquire made after Close, with a live context and the slot free, has
\* returned ErrQueueClosed
C5_Witness ==
    \E p \in Callers :
        /\ afterClose[p] /\ qpc[p] = "ret" /\ qret[p] = "ErrQueueClosed"
        /\ ctxAtCall[p] = "live"
        /\ sem = 0

\* C6 (as stated): every Acquire that is blocked waiting for the slot at the
\* moment Close() is called returns ErrQueueClosed and never obtains the slot.
C6_BlockedAtCloseCallFails ==
    \A p \in Callers :
        (parkedAtCall[p] /\ qpc[p] = "ret") =>
            (qret[p] = "ErrQueueClosed" /\ ~held[p])

\* C6 (amended): every Acquire that is still blocked waiting for the slot
\* when Close closes the gate (the close of q.closed inside the first Close)
\* is woken by that close, returns ErrQueueClosed and does not obtain the
\* slot, whatever the holder does afterwards.
C6_BlockedAtCloseFails ==
    \A p \in Callers :
        parkedAtClose[p] =>
            (qpc[p] = "ret" /\ qret[p] = "ErrQueueClosed" /\ ~held[p])

\* a waiter that was blocked when the gate was closed is returning
\* ErrQueueClosed although the holder has released the slot since
C6_Witness ==
    \E p \in Callers :
        /\ parkedAtClose[p] /\ qpc[p] = "ret" /\ qret[p] = "ErrQueueClosed"
        /\ relAfterClose /\ sem = 0

\* C7: Acquire called with a context that is already cancelled or past its
\* deadline returns that context's error at once: it never reaches the
\* closed check or the select, so it never takes the slot and leaves the
\* gate as it was.
C7_CancelledAcquireFailsFast ==
    \A p \in Callers :
        ctxAtCall[p] # "live" =>
            (qpc[p] = "ret" /\ qret[p] = ctxAtCall[p] /\ ~held[p])

\* an Acquire with a dead context has failed while the gate was open and free
C7_Witness ==
    \E p \in Callers :
        /\ ctxAtCall[p] # "live" /\ qpc[p] = "ret"
        /\ sem = 0 /\ ~closed

\* C8 (as stated): a Release without a matching successful Acquire always
\* panics.
C8_UnmatchedReleasePanics ==
    unmatched => panicked = "queue: Release called without Acquire"

\* C9: any number of Close calls, sequential or concurrent, never panic;
\* once a Close call has returned the gate is closed in every later state.
C9_CloseIdempotent ==
    /\ panicked # "close of closed channel"
    /\ closeOnce => closed
    /\ reClosed => closed

\* a Close call has returned on an already closed gate while another Close
\* call is still in progress
C9_Witness ==
    /\ reClosed /\ closed /\ panicked = "none"
    /\ Closing # {}

\* C10: Close leaves the slot as it is: a caller that holds the slot still
\* holds it after any number of Close calls (the semaphore still contains its
\* element), so its later Release does not panic.
C10_CloseKeepsSlot ==
    /\ \A p \in Callers : held[p] => sem = 1
    /\ panicked = "none"

\* a holder has released without panic after repeated Close calls
C10_Witness ==
    /\ reClosed /\ relAfterClose
    /\ sem = 0 /\ Holders = {}
    /\ panicked = "none"

\* --------------------------------------------------------- session claims

\* every caller's ensureValidToken call is returning
AllDone == \A p \in Callers : epc[p] = "ret"

\* every caller found the token needing refresh and auto-refresh enabled
\* before the first refresh completed, credentials are stored, and every login
\* request was answered with a token
C3_Scenario ==
    /\ AllDone
    /\ \A p \in Callers : slowPath[p]
    /\ credentials # "nil"
    /\ authOutcomes \subseteq {"ok"}

\* C3 (as stated): N callers concurrently invoke ensureValidToken on a token
\* that needs refresh, with auto-refresh, stored credentials and a succeeding
\* Authenticator: exactly one login call is made and all N return success.
C3_ExactlyOneRefresh ==
    C3_Scenario => (nAuth = 1 /\ \A p \in Callers : eret[p] = "nil")

\* C3 (amended): in that scenario all N callers return success, and exactly
\* one login call is made provided the token a refresh installs does not
\* itself need refresh before the last caller has re-checked it (which needs
\* tokenLifetime >= refreshThreshold and less than tokenLifetime -
\* refreshThreshold + 1 ticks of delay); otherwise between 1 and N are made.
C3_OneRefreshUnlessStale ==
    C3_Scenario =>
        /\ \A p \in Callers : eret[p] = "nil"
        /\ nAuth >= 1 /\ nAuth <= NumCallers
        /\ ~stale => nAuth = 1

\* all callers went through the refresh lock, one refreshed, all succeeded
C3_Witness ==
    /\ C3_Scenario
    /\ ~stale /\ nAuth = 1
    /\ \A p \in Callers : eret[p] = "nil"

\* ---------------------------------------------------------- client claims

\* the goroutines whose request has reached the server and is not answered
InFlight == {p \in Clients : http[p] # "none" /\ ctx[p] = "live"}

\* C2 (as stated): at any instant at most one request of the client is in
\* flight at the server, counting entry requests, Login, Logout and the login
\* request of an automatic token refresh.
C2_OneRequestInFlight == Cardinality(InFlight) <= 1

\* C4: when a guarded operation has returned, with success or with any
\* error, its caller does not hold the gate; every Release follows the
\* caller's own successful Acquire (none is unmatched, none panics), so the
\* semaphore holds exactly the elements of the callers still inside their
\* operations.
C4_ReturnedMeansReleased ==
    /\ \A p \in Clients : pc[p] = "idle" => ~held[p]
    /\ ~unmatched
    /\ panicked = "none"
    /\ sem = Cardinality(Holders)

\* an operation has returned the rate limiter's cancellation error after its
\* Acquire had succeeded, and the slot is free again
C4_Witness ==
    \E p \in Clients :
        /\ pc[p] = "idle" /\ lastErr[p] = "rateLimiter"
        /\ sem = 0 /\ Holders = {}

\* ------------------------------------------- the order of an operation

\* the calls of a complete operation o: acquireAndRateLimit (Login:
\* loginAcquireQueue, which has no ensureValidToken), the request, the
\* deferred Release; Wait is called only if a rate limiter is configured
Canon(o) ==
    (IF o = "login" THEN <<>> ELSE <<"ensureValidToken">>)
        \o <<"Acquire">>
        \o (IF rateLimit = 0 THEN <<>> ELSE <<"Wait">>)
        \o <<"request", "Release">>

IsPrefix(a, b) == Len(a) <= Len(b) /\ SubSeq(b, 1, Len(a)) = a

Front(h) == SubSeq(h, 1, Len(h) - 1)

\* h is a run of operation o as far as it got: a beginning of Canon(o), or
\* such a beginning that includes Acquire followed by the Release of the
\* error path, or the lone failure of ensureValidToken
InOrder(h, o) ==
    LET k == Kinds(h) IN
    \/ IsPrefix(k, Canon(o))
    \/ /\ Len(k) >= 2
       /\ k[Len(k)] = "Release"
       /\ Len(k) <= Len(Canon(o))
       /\ IsPrefix(Front(k), Canon(o))
       /\ "Acquire" \in Range(Front(k))
    \/ o # "login" /\ k = <<"ensureValidToken failed">>

C12_FailedEnsureTouchesNothing ==
    \A p \in Clients :
        /\ "ensureValidToken failed" \in Range(steps[p])
              => /\ steps[p] = <<"ensureValidToken failed">>
                 /\ ~held[p] /\ qpc[p] = "none" /\ http[p] = "none"
                 /\ pc[p] \in {"evt", "idle"}
                 /\ pc[p] = "idle" => lastErr[p] = "ensureValidToken"
        /\ lastErr[p] = "ensureValidToken" /\ pc[p] = "idle"
              => steps[p] = <<"ensureValidToken failed">>

\* an operation has returned ensureValidToken's error while another caller
\* holds the gate and the bucket is as full as it was made
C12_Witness ==
    \E p \in Clients :
        /\ pc[p] = "idle" /\ lastErr[p] = "ensureValidToken"
        /\ steps[p] = <<"ensureValidToken failed">>
        /\ rateLimit > 0 /\ limTokens = MaxTokens
        /\ \E q \in Clients : held[q]

\* C13 (as stated): whenever an operation other than Login sends its
\* request, the stored token is non-empty and does not need refresh.
C13_SentWithFreshToken ==
    \A p \in Clients : "request (token needs refresh)" \notin Range(steps[p])

\* C13 (amended): an operation other than Login sends its request only after
\* its ensureValidToken call returned nil, and that call returns nil only at
\* a moment when the stored token is non-empty and does not need refresh, or
\* after a re-authentication it made itself was answered 200.  (The token is
\* not looked at again after Acquire and Wait.)
C13_FreshWhenChecked ==
    \A p \in Clients :
        /\ "ensureValidToken (unchecked)" \notin Range(steps[p])
        /\ op[p] \in {"entry", "logout"} /\ "request" \in Range(Kinds(steps[p]))
              => steps[p][1] \in {"ensureValidToken",
                                  "ensureValidToken (relogin)"}

\* a request was sent with a token needing refresh although the caller's
\* ensureValidToken had found it fresh
C13_Witness ==
    \E p \in Clients :
        /\ Len(steps[p]) >= 1
        /\ steps[p][1] = "ensureValidToken"
        /\ "request (token needs refresh)" \in Range(steps[p])

\* ---------------------------------------------------------- limiter claims

Burst == age = 0 /\ granted = allowed

\* C15 (as stated): on a limiter made by New(R), with no time elapsing,
\* exactly R consecutive Allow calls return true before one returns false.
C15_BurstIsRate ==
    Burst /\ (\E p \in Clients : limRet[p] = "false")
        => allowed * RateDen = rateLimit

\* C15 (amended): New(R) starts with tokens = maxTokens = R; with no time
\* elapsing, exactly floor(R) consecutive Allow calls return true (R of them
\* when R is a whole number) and the next returns false.
C15_BurstIsWholeTokens ==
    Burst =>
        /\ limTokens = MaxTokens - allowed * TokenUnit
        /\ (\E p \in Clients : limRet[p] = "false")
              => allowed = rateLimit \div RateDen

\* a burst of at least one Allow has ended with an Allow returning false
C15_Witness ==
    /\ Burst
    /\ allowed >= 1
    /\ \E p \in Clients : limRet[p] = "false"

\* C16 (as stated): the number of calls that have succeeded by time t (Allow
\* returning true plus Wait returning nil) never exceeds
\* maxTokens + refillRate * (t - creation time).
C16_NoTokenTwice ==
    age < MaxAge => granted * TokenUnit <= MaxTokens + rateLimit * age

\* C17 (as stated): for any rate R > 0, a Wait call that sleeps and whose
\* context is never done eventually returns nil.
C17_WaitReturns ==
    \A p \in Clients :
        pc[p] = "sleep" ~> (limRet[p] = "nil" \/ ctx[p] # "live")

\* C18 (as stated): Wait returns nil only from a round in which
\* tryAcquireOrGetWaitTime found tokens >= 1 and decremented tokens.
C18_NilMeansTokenTaken ==
    \A p \in Clients : limRet[p] = "nil" => took[p]

\* C19 (as stated): when Wait is called with no token available and its
\* context is done before a token is due (possibly before the call), Wait
\* returns the context's error and takes no token.
C19_EarlyCancelSurfaces ==
    \A p \in Clients :
        pc[p] = "idle" /\ early[p] => limRet[p] = ctx[p] /\ ~took[p]

\* C20 (as stated): Wait called with a context that is already done returns
\* the context's error and takes no token, whether or not one is available.
C20_CancelledCallFailsFast ==
    \A p \in Clients :
        pc[p] = "idle" /\ ctxAtCall[p] # "live" /\ limRet[p] # "none"
            => limRet[p] = ctxAtCall[p] /\ ~took[p]

\* ---------------------------------------------------------- refresh claims

\* p's ensureValidToken call decides what it returns in this step
Decides(p) == epc[p] # "ret" /\ epc'[p] = "ret"

\* C21 (as stated): a caller of ensureValidToken whose context is cancelled
\* while it waits for the refresh lock returns the cancellation error.
C21_CancelledWaiterReturns ==
    \A p \in Clients :
        (epc[p] = "lock" /\ ctx[p] # "live")
            ~> (epc[p] = "ret" /\ eret[p] = "AuthError")

\* C22: tokenNeedsRefresh is false exactly when the token is non-empty and
\* not within refreshThreshold of its expiry; a call of ensureValidToken that
\* finds it false returns nil at once, takes no lock, sends no login request
\* and changes neither token, expiry nor credentials, whatever autoRefresh
\* and the stored credentials are.
C22_FastPath ==
    /\ [](~tokenNeedsRefresh <=> (token # "" /\ tokenExpiry >= refreshThreshold))
    /\ [][\A p \in Clients :
            epc[p] = "none" /\ epc'[p] # "none" /\ ~tokenNeedsRefresh
                => /\ epc'[p] = "ret" /\ eret'[p] = "nil"
                   /\ UNCHANGED <<refreshMu, http, token, tokenExpiry, credentials,
                                  nAuth>>]_vars

\* a call has returned nil by the fast path with auto-refresh off and no
\* credentials stored
C22_Witness ==
    \E p \in Clients :
        /\ epc[p] = "ret" /\ eret[p] = "nil"
        /\ ~autoRefresh /\ credentials = "nil"
        /\ nAuth = 0 /\ refreshMu = 0

\* C23 (as stated): a call of ensureValidToken made while the token needs
\* refresh and auto-refresh is off or no credentials are stored returns
\* ErrNoCredentials.
C23_DoomedCallFails ==
    \A p \in Clients : doomed[p] /\ epc[p] = "ret" => eret[p] = "ErrNoCredentials"

\* C23 (amended): ensureValidToken returns ErrNoCredentials exactly when it
\* finds the token needing refresh with auto-refresh off (before taking the
\* refresh lock), or when, holding the lock with the token still needing
\* refresh, it finds no credentials stored; it then has sent no login request
\* and left token and expiry alone.  With auto-refresh off no caller ever
\* takes the lock, and a login request is sent only with auto-refresh on and
\* credentials stored.
C23_NoCredentials ==
    /\ [](~autoRefresh => refreshMu = 0 /\ \A p \in Clients : epc[p] \in {"none", "ret"})
    /\ [][\A p \in Clients :
            Decides(p) =>
                /\ eret'[p] = "ErrNoCredentials"
                      <=> \/ epc[p] = "none" /\ tokenNeedsRefresh /\ ~autoRefresh
                          \/ epc[p] = "refresh" /\ credentials = "nil"
                /\ eret'[p] = "ErrNoCredentials"
                      => UNCHANGED <<token, tokenExpiry, http, nAuth>>
                /\ eret'[p] = "ErrNoCredentials" /\ epc[p] = "none"
                      => UNCHANGED refreshMu]_vars
    /\ [][nAuth' # nAuth => autoRefresh /\ credentials # "nil"]_vars

\* with auto-refresh on, a call has failed for lack of credentials and the
\* expired token is still stored
C23_Witness ==
    \E p \in Clients :
        /\ epc[p] = "ret" /\ eret[p] = "ErrNoCredentials"
        /\ autoRefresh /\ credentials = "nil"
        /\ token = "u1" /\ nAuth = 0

\* C24: a refresh whose login request fails (error, status other than 200,
\* oversized body, cancelled context) leaves token and expiry as they were,
\* and ensureValidToken returns that failure.
C24_FailedRefreshKeepsToken ==
    [][\A p \in Clients :
          epc[p] = "login" /\ Decides(p) /\ eret'[p] # "nil"
              => /\ UNCHANGED <<token, tokenExpiry>>
                 /\ eret'[p] = "AuthError"]_vars

\* a refresh has failed and the token it was to replace, not yet expired, is
\* still stored
C24_Witness ==
    \E p \in Clients :
        /\ epc[p] = "ret" /\ eret[p] = "AuthError"
        /\ token = "u1" /\ tokenExpiry >= 0
        /\ "fail" \in authOutcomes

\* C25: a successful refresh installs the token it received together with
\* the expiry now + tokenLifetime in one step; the token never changes
\* without the expiry being set with it, and the expiry otherwise only ages.
C25_TokenAndExpiryTogether ==
    /\ [][\A p \in Clients :
            epc[p] = "login" /\ Decides(p) /\ eret'[p] = "nil"
                => /\ token' \in {loginUser[p], ""}
                   /\ tokenExpiry' = tokenLifetime]_vars
    /\ [][token' # token => tokenExpiry' = tokenLifetime]_vars
    /\ [][tokenExpiry' # tokenExpiry
            => \/ \E p \in Clients : epc[p] = "login" /\ Decides(p) /\ eret'[p] = "nil"
               \/ token' = token /\ tokenExpiry' = tokenExpiry - 1]_vars

\* a refresh has replaced an expired token by a new one with a full lifetime
C25_Witness ==
    /\ "ok" \in authOutcomes
    /\ token = "u1" /\ tokenExpiry = tokenLifetime
    /\ \E p \in Clients : epc[p] = "ret" /\ eret[p] = "nil" /\ slowPath[p]

\* ----------------------------------------------------- Login and Logout

\* p's operation returns in this step
Returns(p) == pc[p] # "idle" /\ pc'[p] = "idle"

\* the login request of p (Login's own, or a refresh's) is answered with 200
LoginAccepted(p) ==
    /\ http[p] = "login" /\ http'[p] = "none"
    /\ \/ pc'[p] = "store"
       \/ epc'[p] = "ret" /\ eret'[p] = "nil"

\* C26: the stored credentials change only when a Login that succeeded
\* stores them; a Login that fails, wherever it fails, returns without having
\* changed credentials, token or expiry; token and expiry change only by a
\* login request answered with 200, by Logout's clearing of the token, and by
\* the passing of time; an automatic refresh never changes the credentials.
C26_CredentialsOnlyByLogin ==
    /\ [][credentials' # credentials
            => \E p \in Clients :
                  /\ op[p] = "login" /\ pc[p] = "store"
                  /\ Returns(p) /\ lastErr'[p] = "none"
                  /\ credentials' = loginUser[p]]_vars
    /\ [][\A p \in Clients :
            op[p] = "login" /\ Returns(p) /\ lastErr'[p] # "none"
                => UNCHANGED <<credentials, token, tokenExpiry>>]_vars
    /\ [][token' # token \/ tokenExpiry' # tokenExpiry
            => \/ \E p \in Clients : LoginAccepted(p)
               \/ \E p \in Clients : op[p] = "logout" /\ pc[p] = "inflight"
                                       /\ token' = "" /\ UNCHANGED tokenExpiry
               \/ token' = token /\ tokenExpiry' = tokenExpiry - 1]_vars

\* after a successful Login a later Login has failed at its request, and
\* token and credentials of the first are still stored
C26_Witness ==
    \E p \in Clients :
        /\ pc[p] = "idle" /\ lastErr[p] = "http"
        /\ Len(steps[p]) >= 1 /\ steps[p][1] = "Acquire"
        /\ "request" \in Range(steps[p])
        /\ token = "u1" /\ credentials = "u1"

\* C27 (as stated): whenever a Logout call that found a token stored
\* returns, with or without an error, the stored token is empty.
C27_LogoutAlwaysClears ==
    [][\A p \in Clients : op[p] = "logout" /\ Returns(p) => token' = ""]_vars

\* C27 (amended): Logout enters the pipeline only if it finds a token stored;
\* once its request has been attempted it clears the token, whether the
\* request failed or not, and returns; if it fails earlier (ensureValidToken,
\* Acquire or Wait) it returns leaving the token as it is.
C27_LogoutClearsOnceSent ==
    /\ [][\A p \in Clients : pc[p] = "idle" /\ op'[p] = "logout" => token # ""]_vars
    /\ [][\A p \in Clients :
            op[p] = "logout" /\ Returns(p)
                => IF pc[p] = "inflight" THEN token' = ""
                                          ELSE token' = token /\ lastErr'[p] # "none"]_vars

\* a Logout whose request failed has returned the error, and the token is
\* gone while the credentials remain
C27_Witness ==
    \E p \in Clients :
        /\ pc[p] = "idle" /\ lastErr[p] = "logout request"
        /\ token = "" /\ credentials = "u1"

\* C29 (as stated): with a rate limit configured, every request in flight,
\* the login request of an automatic refresh included, was preceded by its
\* sender taking a rate-limit token.
C29_EveryRequestTakesToken ==
    rateLimit > 0 =>
        \A p \in Clients : http[p] # "none" => "Wait" \in Range(steps[p])

\* ------------------------------------------------------ ClearCredentials

\* C28 (as stated): when ClearCredentials returns, the stored token is empty
\* (IsAuthenticated() is false).
C28_ClearCredentialsClearsToken ==
    [][credentials # "nil" /\ credentials' = "nil" => token' = ""]_vars

\* ------------------------------------------------------ entry operations
\* Entries().Get(ctx, form, entryID) and the other entry operations check
\* their arguments before anything else.

\* the arguments an entry operation is called with
EntryArgs == {"valid", "empty form", "empty entry ID", "both empty"}

ArgErrorIgnored(a) == "none"

\* form == "" is looked at first, entryID == "" second
ArgError(a) ==
    CASE a \in {"empty form", "both empty"} -> "ErrEmptyFormName"
      [] a = "empty entry ID" -> "ErrEmptyEntryID"
      [] OTHER -> "none"

\* an entry operation is called: it returns the validation error at once, or
\* starts acquireAndRateLimit
EntryCall(p) ==
    /\ panicked = "none"
    /\ pc[p] = "idle"
    /\ \E a \in EntryArgs, c \in CallCtx :
          /\ steps' = [steps EXCEPT ![p] = IF a = "valid" THEN <<>>
                                            ELSE <<"invalid arguments">>]
          /\ IF ArgError(a) # "none"
                THEN /\ lastErr' = [lastErr EXCEPT ![p] = ArgError(a)]
                     /\ UNCHANGED <<pc, op, ctx>>
                ELSE /\ pc' = [pc EXCEPT ![p] = "evt"]
                     /\ op' = [op EXCEPT ![p] = "entry"]
                     /\ ctx' = [ctx EXCEPT ![p] = c]
                     /\ lastErr' = [lastErr EXCEPT ![p] = "none"]
    /\ UNCHANGED <<sem, closed, closeOnce, qpc, qret, histVars, sessVars>>
    /\ UNCHANGED <<panicked, reClosed, unmatched, confVars, sessHist, rateLimit,
                   limVars, timer, limHist>>

\* a Client with a rate limit of one request per second
EntryInit == PipeInit /\ rateLimit = RateDen

EntryNext ==
    \/ \E p \in Clients :
          \/ EntryCall(p)
          \/ PipeCall(p)
          \/ PipeEnsure(p)
          \/ PipeLock(p)
          \/ PipeRefresh(p)
          \/ PipeRefreshDone(p)
          \/ PipeEnsureReturn(p)
          \/ PipeCheckClosed(p)
          \/ PipeSelect(p)
          \/ PipeCtxDone(p)
          \/ PipeAcquireReturn(p)
          \/ PipeTimerFire(p)
          \/ PipeWaitCancelled(p)
          \/ PipeSend(p)
          \/ PipeRespond(p)
          \/ PipeStore(p)
    \/ PipeClose
    \/ PipeTick

\* a rate-limited Client whose entry operations are called with any arguments
SpecEntry == EntryInit /\ [][EntryNext]_vars

ValidationErrors == {"ErrEmptyFormName", "ErrEmptyEntryID"}

\* C30: an entry operation called with an empty form name or an empty entry
\* ID returns ErrEmptyFormName / ErrEmptyEntryID and does nothing else: it
\* never enters ensureValidToken, the gate or the rate limiter, sends nothing,
\* and its return leaves token, expiry, credentials, the gate and the bucket
\* as they were, whether or not the client is authenticated.
C30_ValidationFirst ==
    /\ [](\A p \in Clients :
            "invalid arguments" \in Range(steps[p])
                => /\ steps[p] = <<"invalid arguments">>
                   /\ pc[p] = "idle" /\ lastErr[p] \in ValidationErrors
                   /\ qpc[p] = "none" /\ http[p] = "none" /\ ~held[p])
    /\ [][\A p \in Clients :
            /\ steps'[p] = <<"invalid arguments">>
            /\ steps'[p] # steps[p] \/ lastErr'[p] # lastErr[p]
            => UNCHANGED <<gateVars, limVars, sessVars, sessHist, qpc, held>>]_vars

\* an unauthenticated client has returned ErrEmptyEntryID with the gate free
\* and the bucket full
C30_Witness ==
    \E p \in Clients :
        /\ pc[p] = "idle" /\ lastErr[p] = "ErrEmptyEntryID"
        /\ steps[p] = <<"invalid arguments">>
        /\ token = "" /\ credentials = "nil" /\ nAuth = 0
        /\ sem = 0 /\ rateLimit > 0 /\ limTokens = MaxTokens

\* --------------------------------------------------------- ratelimit.New
\* New is called with any rate, positive or not, and the goroutines call
\* Allow on what it returned.  With a rate of zero or less the bucket never
\* holds a whole token; how far below it sinks is not tracked.

\* the lowest rate New is called with: -1 request per second
MinRate == 0 - RateDen

\* ratelimit.New(rateLimit / RateDen): the Limiter is built whatever the rate
NewInit ==
    /\ QueueNew
    /\ qpc = [p \in Callers |-> "none"]
    /\ qret = [p \in Callers |-> "nil"]
    /\ ctx = [p \in Callers |-> "live"]
    /\ pc = [p \in Callers |-> "idle"]
    /\ panicked = "none"
    /\ reClosed = FALSE
    /\ held = [p \in Callers |-> FALSE]
    /\ ctxAtCall = [p \in Callers |-> "live"]
    /\ afterClose = [p \in Callers |-> FALSE]
    /\ parkedAtCall = [p \in Callers |-> FALSE]
    /\ parkedAtClose = [p \in Callers |-> FALSE]
    /\ unmatched = FALSE
    /\ relAfterClose = FALSE
    /\ ClientNew
    /\ SessHistInit
    /\ autoRefresh = TRUE
    /\ tokenLifetime = MaxLifetime
    /\ refreshThreshold = 1
    /\ rateLimit \in MinRate..MaxRate
    /\ LimiterNew(rateLimit)
    /\ timer = [p \in Callers |-> 0]
    /\ op = [p \in Callers |-> "none"]
    /\ lastErr = [p \in Callers |-> "none"]
    /\ steps = [p \in Callers |-> <<>>]
    /\ LimHistInit

NewNext ==
    \/ \E p \in Clients : LimAllow(p)
    \/ LimTick

SpecNew == NewInit /\ [][NewNext]_vars

\* C31 (as stated): New called with a rate of zero or less panics with
\* "ratelimit: requestsPerSecond must be > 0" and returns no limiter.
C31_InvalidRatePanics ==
    rateLimit <= 0 => panicked = "ratelimit: requestsPerSecond must be > 0"

\* ------------------------------------------------- refreshes in flight

\* the goroutines whose refreshToken has its login request in flight
Refreshing == {p \in Callers : epc[p] = "login" /\ http[p] = "login"}

\* C32: at most one goroutine at a time has the login request of a refresh
\* in flight, and that goroutine holds the refresh lock, however many
\* goroutines are inside ensureValidToken.
C32_OneRefreshInFlight ==
    /\ Cardinality(Refreshing) <= 1
    /\ \A p \in Refreshing : refreshMu = p

\* one refresh is in flight while two other goroutines wait for the lock
C32_Witness ==
    \E p \in Callers :
        /\ p \in Refreshing
        /\ Cardinality({q \in Callers : epc[q] = "lock"}) >= 2

\* ------------------------------------------------------------ termination
\* A Client with a rate limit of one request per second that is fresh, or
\* has just logged in as u1.  Each goroutine calls one operation, with a
\* live or a cancelled context; contexts are cancelled and Close is called at
\* the callers' pleasure.  The scheduler lets every goroutine run, the server
\* answers every request, and the clock advances.

\* p calls its operation
LiveCall(p) ==
    /\ steps[p] = <<>>
    /\ PipeCall(p)

\* a step of p's operation in progress
ClientStep(p) ==
    \/ PipeEnsure(p)
    \/ PipeLock(p)
    \/ PipeRefresh(p)
    \/ PipeRefreshDone(p)
    \/ PipeEnsureReturn(p)
    \/ PipeCheckClosed(p)
    \/ PipeSelect(p)
    \/ PipeAcquireReturn(p)
    \/ PipeTimerFire(p)
    \/ PipeWaitCancelled(p)
    \/ PipeSend(p)
    \/ PipeRespond(p)
    \/ PipeStore(p)

\* time passes, and a goroutine that can run does
ClientFairness ==
    /\ WF_vars(PipeTick)
    /\ \A p \in Clients : WF_vars(ClientStep(p))

LiveInit ==
    /\ QueueNew
    /\ qpc = [p \in Callers |-> "none"]
    /\ qret = [p \in Callers |-> "nil"]
    /\ ctx = [p \in Callers |-> "live"]
    /\ pc = [p \in Callers |-> "idle"]
    /\ panicked = "none"
    /\ reClosed = FALSE
    /\ held = [p \in Callers |-> FALSE]
    /\ ctxAtCall = [p \in Callers |-> "live"]
    /\ afterClose = [p \in Callers |-> FALSE]
    /\ parkedAtCall = [p \in Callers |-> FALSE]
    /\ parkedAtClose = [p \in Callers |-> FALSE]
    /\ unmatched = FALSE
    /\ relAfterClose = FALSE
    /\ refreshMu = 0
    /\ epc = [p \in Callers |-> "none"]
    /\ eret = [p \in Callers |-> "nil"]
    /\ http = [p \in Callers |-> "none"]
    /\ loginUser = [p \in Callers |-> "nil"]
    /\ SessHistInit
    /\ autoRefresh = TRUE
    /\ tokenLifetime = MaxLifetime
    /\ refreshThreshold = 1
    /\ \/ token = "" /\ tokenExpiry = -1 /\ credentials = "nil"
       \/ token = "u1" /\ tokenExpiry = tokenLifetime /\ credentials = "u1"
    /\ rateLimit = RateDen
    /\ LimiterNew(rateLimit)
    /\ timer = [p \in Callers |-> 0]
    /\ op = [p \in Callers |-> "none"]
    /\ lastErr = [p \in Callers |-> "none"]
    /\ steps = [p \in Callers |-> <<>>]
    /\ LimHistInit

LiveNext ==
    \/ \E p \in Clients :
          \/ LiveCall(p)
          \/ PipeEnsure(p)
          \/ PipeLock(p)
          \/ PipeRefresh(p)
          \/ PipeRefreshDone(p)
          \/ PipeEnsureReturn(p)
          \/ PipeCheckClosed(p)
          \/ PipeSelect(p)
          \/ PipeCtxDone(p)
          \/ PipeAcquireReturn(p)
          \/ PipeTimerFire(p)
          \/ PipeWaitCancelled(p)
          \/ PipeSend(p)
          \/ PipeRespond(p)
          \/ PipeStore(p)
    \/ PipeClose
    \/ PipeTick

SpecClientLive == LiveInit /\ [][LiveNext]_vars /\ ClientFairness

ReleaseStep(p) ==
    \/ pc[p] = "holding" /\ pc'[p] = "idle"
    \/ pc[p] = "idle" /\ pc'[p] = "idle" /\ ~unmatched /\ unmatched'

\* the slot is freed, or handed to a goroutine parked in Acquire
SlotFreed ==
    \/ sem' = sem - 1
    \/ sem' = sem /\ \E w \in Callers : qpc[w] = "parked" /\ qpc'[w] = "ret"
                                          /\ qret'[w] = "nil"

C35_NoRequestAfterClose ==
    []((closed /\ \A p \in Clients : pc[p] = "idle")
          => [](\A p \in Clients : http[p] = "none"))

\* ------------------------------------------------------ failed refreshes

\* the goroutines that have made a login request of their own which failed or
\* is still in flight
OwnCall == {p \in Callers : epc[p] = "login" \/ (epc[p] = "ret" /\ eret[p] = "AuthError")}

\* C36: as long as every login request has failed, each goroutine that found
\* the token needing refresh makes a login request of its own once it has the
\* refresh lock, and returns the error of that request: there are as many
\* requests as goroutines that are through, none shared.
C36_FailureNotShared ==
    (authOutcomes \subseteq {"fail"} /\ credentials # "nil") =>
        /\ \A p \in Callers : slowPath[p] /\ epc[p] = "ret" => eret[p] = "AuthError"
        /\ nAuth = Cardinality(OwnCall)

\* every goroutine found the token needing refresh, made its own request and
\* returned its failure
C36_Witness ==
    /\ \A p \in Callers : slowPath[p] /\ epc[p] = "ret" /\ eret[p] = "AuthError"
    /\ nAuth = NumCallers /\ authOutcomes = {"fail"}

\* -------------------------------------- a lifetime within the threshold

\* the token's lifetime is shorter than the threshold, or as long and time
\* has advanced since the token was installed
WithinThreshold ==
    \/ tokenLifetime < refreshThreshold
    \/ tokenLifetime = refreshThreshold /\ tokenExpiry < tokenLifetime

\* C37: with tokenLifetime <= refreshThreshold the stored token needs refresh
\* as soon as time has advanced since it was installed (at once if the
\* lifetime is shorter); a goroutine that then gets the refresh lock is not
\* stopped by the second check and goes on to refreshToken; and with the
\* lifetime shorter than the threshold every ensureValidToken call on a
\* client with credentials makes a login request of its own.
C37_ShortLifetimeAlwaysRefreshes ==
    /\ [](WithinThreshold => tokenNeedsRefresh)
    /\ [][\A p \in Callers :
            WithinThreshold /\ epc[p] = "lock" /\ epc'[p] # "lock"
                => epc'[p] = "refresh" /\ refreshMu' = p]_vars
    /\ [](tokenLifetime < refreshThreshold /\ autoRefresh /\ credentials # "nil"
            => nAuth = Cardinality({p \in Callers : epc[p] \in {"login", "ret"}}))

\* lifetime and threshold are equal, and every goroutine has refreshed the
\* token itself, each after the one before had installed a token
C37_Witness ==
    /\ tokenLifetime = refreshThreshold
    /\ \A p \in Callers : epc[p] = "ret" /\ eret[p] = "nil"
    /\ nAuth = NumCallers /\ authOutcomes = {"ok"}

\* ------------------------------------------------------------ after Logout

\* C38: no step of a Logout changes the stored credentials or the
\* auto-refresh flag; a guarded operation that finds the token empty on a
\* client with credentials does not fail as unauthenticated: it goes for the
\* refresh lock, sends a login request with the stored credentials, and if
\* that is answered with a token ensureValidToken returns nil.
C38_LogoutKeepsCredentials ==
    /\ [][\A p \in Clients :
            op[p] = "logout" /\ (pc'[p] # pc[p] \/ epc'[p] # epc[p])
                => UNCHANGED <<credentials, autoRefresh>>]_vars
    /\ [][\A p \in Clients :
            /\ pc[p] = "evt" /\ token = "" /\ credentials # "nil"
            /\ epc'[p] # epc[p]
            => CASE epc[p] = "none" -> epc'[p] = "lock"
                 [] epc[p] = "lock" -> epc'[p] = "refresh"
                 [] epc[p] = "refresh" -> /\ epc'[p] = "login" /\ http'[p] = "login"
                                          /\ loginUser'[p] = credentials
                 [] epc[p] = "login" -> (token' # "" => eret'[p] = "nil")
                 [] OTHER -> TRUE]_vars

\* one goroutine's Logout has succeeded; the other's operation has found the
\* token empty and its login request with the stored credentials is in flight
C38_Witness ==
    \E p, q \in Clients :
        /\ pc[q] = "idle" /\ lastErr[q] = "none"
        /\ Len(steps[q]) > 1 /\ steps[q][1] = "ensureValidToken"
        /\ "request" \in Range(steps[q])
        /\ pc[p] = "evt" /\ epc[p] = "login" /\ loginUser[p] = "u1"
        /\ token = "" /\ credentials = "u1"

\* ------------------------------------------------ logging in as another
\* A Client that has just logged in as u1.  Each goroutine calls one
\* operation, which may be LoginWithAuth for another user, u2.

\* p calls Login / LoginWithAuth for user u: loginAcquireQueue is entered
LoginCall(p, u) ==
    /\ panicked = "none"
    /\ pc[p] = "idle"
    /\ steps[p] = <<>>
    /\ \E c \in CallCtx :
          /\ loginUser' = [loginUser EXCEPT ![p] = u]
          /\ AcquireEnter(p, c)
          /\ pc' = [pc EXCEPT ![p] = "acq"]
          /\ op' = [op EXCEPT ![p] = "login"]
          /\ ctx' = [ctx EXCEPT ![p] = c]
          /\ lastErr' = [lastErr EXCEPT ![p] = "none"]
    /\ UNCHANGED <<token, tokenExpiry, credentials, refreshMu, epc, eret, http>>
    /\ UNCHANGED <<panicked, reClosed, unmatched, confVars, sessHist, rateLimit,
                   limVars, timer, steps, limHist>>

ReloginInit == LiveInit /\ token = "u1"

ReloginNext ==
    \/ \E p \in Clients :
          \/ LoginCall(p, "u2")
          \/ LiveCall(p)
          \/ PipeEnsure(p)
          \/ PipeLock(p)
          \/ PipeRefresh(p)
          \/ PipeRefreshDone(p)
          \/ PipeEnsureReturn(p)
          \/ PipeCheckClosed(p)
          \/ PipeSelect(p)
          \/ PipeCtxDone(p)
          \/ PipeAcquireReturn(p)
          \/ PipeTimerFire(p)
          \/ PipeWaitCancelled(p)
          \/ PipeSend(p)
          \/ PipeRespond(p)
          \/ PipeStore(p)
    \/ PipeClose
    \/ PipeTick

SpecRelogin == ReloginInit /\ [][ReloginNext]_vars

\* C39 (as stated): when no call is in progress, a stored token that is not
\* empty is the one issued for the credentials stored.
C39_TokenMatchesCredentials ==
    (\A p \in Clients : pc[p] = "idle") /\ token # "" => token = credentials

====
